---- MODULE Spec2Model ----
(***************************************************************************)
(* Code Health Audit Engine of revflo: the V3 audit orchestrator           *)
(* (AuditOrchestratorV3), the six dimension scanners, and the file metric  *)
(* cache (FileMetricCacheService), modelled from backend/app/services.     *)
(***************************************************************************)
EXTENDS Integers, Sequences, FiniteSets, TLC

(***************************************************************************)
(* Bounds of the model                                                     *)
(***************************************************************************)
\* persistence operations that may raise in one behaviour
MaxFaults == 2
\* clock advances in one behaviour of the cache specification
MaxTicks == 2
\* set_metrics / get_metrics calls in one behaviour of the cache specification
MaxCacheOps == 3
\* files `git ls-files` may list
MaxTracked == 3
\* findings in a list passed to calculate_score
MaxFindings == 6
\* risk items in a list passed to the legacy calculate_score
MaxRiskItems == 7
MaxDiffLines == 2
MaxCommits == 2

(***************************************************************************)
(* Program constants                                                       *)
(***************************************************************************)
\* Optional[...] = None (an unset reference, an unset overall_score)
None == -1
\* FileMetricCache.ttl default: 86400 * 30 seconds
DEFAULT_TTL == 86400 * 30
\* scanner thresholds (class attributes)
LARGE_FILE_LOC == 300
COMPLEX_MODULE_COMPLEXITY == 20
HOTSPOT_COMPLEXITY == 15
HOTSPOT_CHURN == 10
NO_TESTS_MIN_LOC == 100
DEEP_NESTING_THRESHOLD == 5
HIGH_COMPLEXITY_THRESHOLD == 25

\* the order in which execute appends the scanners to scanner_tasks
ScannerTasks ==
    << "code_quality", "maintainability", "testing_confidence",
       "architecture", "performance", "security" >>

Dimensions == { ScannerTasks[i] : i \in 1..Len(ScannerTasks) }

(***************************************************************************)
(* FileMetrics values of the analysed snapshots                            *)
(***************************************************************************)
FileMetrics(file_path, loc, complexity, indent_depth, churn_90d, has_test, language) ==
    [ file_path |-> file_path, loc |-> loc, complexity |-> complexity,
      indent_depth |-> indent_depth, churn_90d |-> churn_90d,
      has_test |-> has_test, language |-> language ]

\* every rule of every dimension fires
MetricsHot(f) == FileMetrics(f, 350, 45, 7, 15, FALSE, "python")
\* only the two code_quality rules fire
MetricsBig(f) == FileMetrics(f, 350, 22, 3, 0, TRUE, "python")
\* no rule fires
MetricsClean(f) == FileMetrics(f, 50, 5, 2, 0, TRUE, "python")
\* every metric exactly on its threshold: no rule fires
MetricsEdge(f) == FileMetrics(f, 300, 20, 5, 10, FALSE, "python")

\* metrics_dict of _compute_metrics: insertion-ordered (path, FileMetrics)
Snapshots ==
    { << >>,
      << << "a.py", MetricsHot("a.py") >> >>,
      << << "a.py", MetricsHot("a.py") >>, << "b.py", MetricsBig("b.py") >> >>,
      << << "a.py", MetricsClean("a.py") >>, << "b.py", MetricsEdge("b.py") >> >>,
      << << "a.py", MetricsBig("a.py") >>, << "b.py", MetricsHot("b.py") >> >> }

Files == { "a.py", "b.py" }

(***************************************************************************)
(* Dimension scanners: rules and score                                     *)
(***************************************************************************)
Finding(rule_id, severity, category, file_path) ==
    [ id |-> << rule_id, file_path >>, rule_id |-> rule_id,
      severity |-> severity, category |-> category, file_path |-> file_path ]

Max(a, b) == IF a >= b THEN a ELSE b

Deduction(severity) ==
    CASE severity = "critical" -> 20
      [] severity = "high" -> 10
      [] severity = "medium" -> 5
      [] severity = "low" -> 2
      [] OTHER -> 0

RECURSIVE DeductAll(_, _)
DeductAll(score, findings) ==
    IF findings = << >> THEN score
    ELSE DeductAll(score - Deduction(Head(findings).severity), Tail(findings))

\* mutant of calculate_score: the score is not floored at 0
calculate_score_unfloored(findings) == DeductAll(100, findings)

\* calculate_score of the six scanners (the same body in each)
calculate_score(findings) == Max(0, DeductAll(100, findings))

\* the findings one scanner appends for one file of metric_cache
FileFindings(dimension, file_path, m) ==
    CASE dimension = "code_quality" ->
            (IF m.loc > LARGE_FILE_LOC
             THEN << Finding("QUAL001", "medium", "large_file", file_path) >>
             ELSE << >>)
            \o
            (IF m.complexity > COMPLEX_MODULE_COMPLEXITY
             THEN << Finding("QUAL002", "medium", "complex_module", file_path) >>
             ELSE << >>)
      [] dimension = "maintainability" ->
            IF m.complexity > HOTSPOT_COMPLEXITY /\ m.churn_90d > HOTSPOT_CHURN
            THEN << Finding("MAINT001", "high", "hotspot", file_path) >>
            ELSE << >>
      [] dimension = "testing_confidence" ->
            IF m.loc > NO_TESTS_MIN_LOC /\ ~m.has_test
            THEN << Finding("TEST001", "medium", "no_tests", file_path) >>
            ELSE << >>
      [] dimension = "architecture" ->
            IF m.indent_depth > DEEP_NESTING_THRESHOLD
            THEN << Finding("ARCH001", "medium", "deep_nesting", file_path) >>
            ELSE << >>
      [] dimension = "performance" ->
            IF m.complexity > HIGH_COMPLEXITY_THRESHOLD
            THEN << Finding("PERF001", "medium", "high_complexity", file_path) >>
            ELSE << >>
      [] OTHER -> << >>

\* mutant of ScanFindings: only the first file of metric_cache is scanned
ScanFindingsFirstFile(dimension, metric_cache) ==
    IF metric_cache = << >> THEN << >>
    ELSE FileFindings(dimension, Head(metric_cache)[1], Head(metric_cache)[2])

RECURSIVE ScanFindings(_, _)
ScanFindings(dimension, metric_cache) ==
    IF metric_cache = << >> THEN << >>
    ELSE FileFindings(dimension, Head(metric_cache)[1], Head(metric_cache)[2])
         \o ScanFindings(dimension, Tail(metric_cache))

\* ai_summary: Optional[str] = None, the value None
NoSummary == "None"

\* scan(repo_context, changed_files, metric_cache) of the scanner of one
\* dimension up to "Phase 5": the DimensionScanResult with its deterministic
\* fields set
ScanResult(dimension, repo_id, metric_cache) ==
    LET findings == ScanFindings(dimension, metric_cache)
    IN [ id |-> None,
         audit_run_id |-> repo_id,
         repo_id |-> repo_id,
         scan_type |-> dimension,
         status |-> "completed",
         score |-> calculate_score(findings),
         findings |-> findings,
         ai_summary |-> NoSummary,
         recommendations |-> << >>,
         files_analyzed |-> Len(metric_cache),
         files_from_cache |-> Len(metric_cache) ]

(***************************************************************************)
(* State                                                                   *)
(***************************************************************************)
VARIABLES
    auditRuns,   \* collection audit_runs_v3: sequence of AuditRun, id = index
    dimScans,    \* collection dimension_scans_v3: sequence, id = index
    cache,       \* collection file_metrics_cache: set of FileMetricCache
    nextCacheId, \* ids handed out to inserted FileMetricCache documents
    now,         \* datetime.utcnow(), in seconds
    faults,      \* persistence operations that raised so far
    tr,          \* frame of trigger_v3_audit
    ex,          \* frame of AuditOrchestratorV3.execute; first_done (the
                 \* scanner that finished first) and failed_at (the step
                 \* that raised) record the run for the properties
    cl,          \* frame of a direct caller of FileMetricCacheService
    wr,          \* frames of two audit runs storing their metrics at once
    call         \* a call of a function of the engine: arguments and result

vars ==
    << auditRuns, dimScans, cache, nextCacheId, now, faults, tr, ex, cl, wr,
       call >>

RepoIds == { 100 }
CommitShas == { "HEAD" }

\* a persistence operation may raise (document store error)
MayFail == faults < MaxFaults

(***************************************************************************)
(* AuditRun documents                                                      *)
(***************************************************************************)
\* AuditRun(repo_id, commit_sha, status="pending", ...) with the defaults
NewAuditRun(repo_id, commit_sha) ==
    [ id |-> None,
      repo_id |-> repo_id,
      commit_sha |-> commit_sha,
      status |-> "pending",
      security_scan_id |-> None,
      performance_scan_id |-> None,
      code_quality_scan_id |-> None,
      architecture_scan_id |-> None,
      maintainability_scan_id |-> None,
      testing_scan_id |-> None,
      overall_score |-> None,
      total_issues |-> 0 ]

\* mutant of Link: the field is looked up as <scan_type>_scan_id, which the
\* testing dimension's field (testing_scan_id) is not
LinkByScanTypeName(audit_run, scan_type, id) ==
    CASE scan_type = "code_quality" ->
            [audit_run EXCEPT !.code_quality_scan_id = id]
      [] scan_type = "maintainability" ->
            [audit_run EXCEPT !.maintainability_scan_id = id]
      [] scan_type = "architecture" ->
            [audit_run EXCEPT !.architecture_scan_id = id]
      [] scan_type = "performance" ->
            [audit_run EXCEPT !.performance_scan_id = id]
      [] scan_type = "security" ->
            [audit_run EXCEPT !.security_scan_id = id]
      [] OTHER -> audit_run

\* "Link to audit run": the if/elif chain on result.scan_type
Link(audit_run, scan_type, id) ==
    CASE scan_type = "code_quality" ->
            [audit_run EXCEPT !.code_quality_scan_id = id]
      [] scan_type = "maintainability" ->
            [audit_run EXCEPT !.maintainability_scan_id = id]
      [] scan_type = "testing_confidence" ->
            [audit_run EXCEPT !.testing_scan_id = id]
      [] scan_type = "architecture" ->
            [audit_run EXCEPT !.architecture_scan_id = id]
      [] scan_type = "performance" ->
            [audit_run EXCEPT !.performance_scan_id = id]
      [] scan_type = "security" ->
            [audit_run EXCEPT !.security_scan_id = id]
      [] OTHER -> audit_run

\* the dimension-specific reference field of an AuditRun
ScanIdOf(audit_run, dimension) ==
    CASE dimension = "code_quality" -> audit_run.code_quality_scan_id
      [] dimension = "maintainability" -> audit_run.maintainability_scan_id
      [] dimension = "testing_confidence" -> audit_run.testing_scan_id
      [] dimension = "architecture" -> audit_run.architecture_scan_id
      [] dimension = "performance" -> audit_run.performance_scan_id
      [] dimension = "security" -> audit_run.security_scan_id

\* mutant of OverallScore: the mean is taken over all six dimensions
OverallScoreOfSix(score_sum, successful_scans) ==
    IF successful_scans > 0 THEN score_sum \div Len(ScannerTasks) ELSE 0

\* "Step 5": int(score_sum / successful_scans), 0 when no scan succeeded
OverallScore(score_sum, successful_scans) ==
    IF successful_scans > 0 THEN score_sum \div successful_scans ELSE 0

\* mutant of ReturnExceptions: gather without return_exceptions
ReturnExceptionsDefault == FALSE

\* asyncio.gather(*scanner_tasks, return_exceptions=True)
ReturnExceptions == TRUE

\* isinstance(result, Exception)
IsException(result) == "exception" \in DOMAIN result

ScannerException(dimension) == [ exception |-> dimension ]

(***************************************************************************)
(* AI explanation of a DimensionScanResult                                 *)
(***************************************************************************)
\* what can happen when the explanation is requested: DimensionAI() cannot
\* be constructed; the provider call raises or times out; the content is
\* not JSON; the content is JSON of one of five shapes
AiOutcomes ==
    { "no_client", "provider_error", "timeout", "invalid_json", "ok",
      "no_summary", "no_recommendation", "empty_object", "not_object" }

\* should_run_ai of DimensionScanner
should_run_ai(scan_result) ==
    IF Len(scan_result.findings) = 0 THEN FALSE
    ELSE IF scan_result.score >= 90 THEN FALSE
    ELSE TRUE

\* _should_run_ai of DimensionAI
DimensionAI_should_run_ai(scan_result) ==
    IF Len(scan_result.findings) = 0 THEN FALSE
    ELSE IF scan_result.score >= 90 THEN FALSE
    ELSE TRUE

\* the values explain_findings returns: None, or what json.loads returned
AiNothing ==
    [ kind |-> "None", has_summary |-> FALSE, summary |-> "",
      has_top_recommendation |-> FALSE, top_recommendation |-> "" ]

AiDict(has_summary, has_top_recommendation) ==
    [ kind |-> "dict", has_summary |-> has_summary,
      summary |-> IF has_summary THEN "summary text" ELSE "",
      has_top_recommendation |-> has_top_recommendation,
      top_recommendation |-> IF has_top_recommendation THEN "action item" ELSE "" ]

AiList == [ AiNothing EXCEPT !.kind = "list" ]

AiException == [ exception |-> "ai" ]

\* explain_findings: every exception of the provider call and of json.loads
\* is caught and None returned
explain_findings(dimension, scan_result, outcome) ==
    IF ~DimensionAI_should_run_ai(scan_result) THEN AiNothing
    ELSE CASE outcome = "ok" -> AiDict(TRUE, TRUE)
           [] outcome = "no_summary" -> AiDict(FALSE, TRUE)
           [] outcome = "no_recommendation" -> AiDict(TRUE, FALSE)
           [] outcome = "empty_object" -> AiDict(FALSE, FALSE)
           [] outcome = "not_object" -> AiList
           [] OTHER -> AiNothing

\* bool(ai_result)
Truthy(ai_result) ==
    \/ ai_result.kind = "list"
    \/ /\ ai_result.kind = "dict"
       /\ ai_result.has_summary \/ ai_result.has_top_recommendation

\* the body of the try of "Phase 5": the scan_result it leaves, or the
\* exception that leaves it
AiStep(dimension, scan_result, outcome) ==
    IF outcome = "no_client" THEN AiException
    ELSE LET ai_result == explain_findings(dimension, scan_result, outcome)
         IN IF ~Truthy(ai_result) THEN scan_result
            ELSE IF ai_result.kind # "dict" THEN AiException
            ELSE [ scan_result EXCEPT
                     !.ai_summary = IF ai_result.has_summary
                                    THEN ai_result.summary ELSE "",
                     !.recommendations =
                         IF ai_result.has_top_recommendation
                         THEN << ai_result.top_recommendation >> ELSE @ ]

\* mutant of CatchAi: "Phase 5" without its try/except
UncaughtAi(step, scan_result) == step

\* except Exception as e: logger.warning(...)
CatchAi(step, scan_result) == IF IsException(step) THEN scan_result ELSE step

\* the condition of "Phase 5"; only CodeQualityScanner.scan has the phase
AiPhase(dimension, scan_result) ==
    /\ dimension = "code_quality"
    /\ scan_result.score < 90 /\ Len(scan_result.findings) > 0

\* the explanation is requested from the provider
AiCalled(dimension, scan_result, outcome) ==
    /\ AiPhase(dimension, scan_result)
    /\ outcome # "no_client"
    /\ DimensionAI_should_run_ai(scan_result)

\* mutant of Scan: the explanation is requested for every result
ScanAlwaysExplained(dimension, repo_id, metric_cache, outcome) ==
    LET scan_result == ScanResult(dimension, repo_id, metric_cache)
    IN IF outcome = "ok"
       THEN [ scan_result EXCEPT !.ai_summary = "summary text",
                                 !.recommendations = << "action item" >> ]
       ELSE scan_result

\* scan(repo_context, changed_files, metric_cache) of the scanner of one
\* dimension, when it returns
Scan(dimension, repo_id, metric_cache, outcome) ==
    LET scan_result == ScanResult(dimension, repo_id, metric_cache)
    IN IF AiPhase(dimension, scan_result)
       THEN CatchAi(AiStep(dimension, scan_result, outcome), scan_result)
       ELSE scan_result

\* mutant of GatherDone: asyncio.wait(..., return_when=FIRST_COMPLETED)
GatherFirstCompleted(scanner_status) ==
    \E d \in Dimensions : scanner_status[d] \in { "returned", "raised" }

\* gather resumes execute when every awaitable has finished
GatherDone(scanner_status) ==
    \A d \in Dimensions : scanner_status[d] \in { "returned", "raised" }

\* mutant of StoreLoopDone: the loop stops one file short
StoreLoopDoneEarly(wi, metrics_dict) == wi >= Len(metrics_dict)

\* the loop of "Step 4: Store all metrics in cache" has run to its end
StoreLoopDone(wi, metrics_dict) == wi > Len(metrics_dict)

(***************************************************************************)
(* FileMetricCacheService                                                  *)
(***************************************************************************)
\* mutant of CacheFind: the commit SHA is not part of the query
CacheFindAnyCommit(repo_id, commit_sha, file_path) ==
    { e \in cache : e.repo_id = repo_id /\ e.file_path = file_path }

\* FileMetricCache.find(repo_id ==, commit_sha ==, file_path ==)
CacheFind(repo_id, commit_sha, file_path) ==
    { e \in cache : /\ e.repo_id = repo_id
                    /\ e.commit_sha = commit_sha
                    /\ e.file_path = file_path }

\* mutant of Expired: an entry whose age equals its ttl counts as expired
ExpiredAtTtl(entry, utcnow) == utcnow - entry.computed_at >= entry.ttl

\* the TTL check of get_metrics and get_all_for_commit
Expired(entry, utcnow) == utcnow - entry.computed_at > entry.ttl

\* the FileMetrics get_metrics builds from a cache entry
EntryMetrics(e) ==
    FileMetrics(e.file_path, e.loc, e.complexity, e.indent_depth,
                e.churn_90d, e.has_test, e.language)

\* the FileMetricCache set_metrics builds from its arguments
NewCacheEntry(repo_id, commit_sha, file_path, metrics, utcnow) ==
    [ id |-> None,
      repo_id |-> repo_id,
      commit_sha |-> commit_sha,
      file_path |-> file_path,
      loc |-> metrics.loc,
      complexity |-> metrics.complexity,
      indent_depth |-> metrics.indent_depth,
      churn_90d |-> metrics.churn_90d,
      has_test |-> metrics.has_test,
      language |-> metrics.language,
      computed_at |-> utcnow,
      ttl |-> DEFAULT_TTL ]

\* "Update existing": the assignments to the entry find_one returned
UpdatedCacheEntry(existing, metrics, utcnow) ==
    [ existing EXCEPT !.loc = metrics.loc,
                      !.complexity = metrics.complexity,
                      !.indent_depth = metrics.indent_depth,
                      !.churn_90d = metrics.churn_90d,
                      !.has_test = metrics.has_test,
                      !.language = metrics.language,
                      !.computed_at = utcnow ]

\* Document.save(): replace the stored document of that id, or insert it
CacheSaved(doc) == { e \in cache : e.id # doc.id } \cup { doc }

\* find_one returned nothing
NoEntry == [ id |-> None ]

\* mutant of SetMetricsSave: the entry built by the call is always inserted
SetMetricsInsert(cache_entry, existing, metrics, utcnow) ==
    cache \cup { [cache_entry EXCEPT !.id = nextCacheId] }

\* the collection after the save of set_metrics: cache_entry is the entry
\* built on entry to the call, existing is what find_one returned
SetMetricsSave(cache_entry, existing, metrics, utcnow) ==
    IF existing # NoEntry
    THEN CacheSaved(UpdatedCacheEntry(existing, metrics, utcnow))
    ELSE CacheSaved([cache_entry EXCEPT !.id = nextCacheId])

(***************************************************************************)
(* Frames                                                                  *)
(***************************************************************************)
NoAuditRun == [ id |-> None ]
NoResult == [ pending |-> TRUE ]

IdleExecute ==
    [ pc |-> "idle",
      audit_run_id |-> None,
      audit_run |-> NoAuditRun,
      metrics_dict |-> << >>,
      wi |-> 1,
      cache_entry |-> NoEntry,
      existing |-> NoEntry,
      scanner_status |-> [ d \in Dimensions |-> "idle" ],
      scan_results |-> [ d \in Dimensions |-> NoResult ],
      first_done |-> "",
      failed_at |-> "",
      ri |-> 1,
      total_issues |-> 0,
      score_sum |-> 0,
      successful_scans |-> 0,
      ai_calls |-> {} ]

\* scan_dir: the directory of tempfile.mkdtemp, "none" before it is made
IdleTrigger == [ pc |-> "idle", audit_run_id |-> None, scan_dir |-> "none" ]

\* miss: get_metrics returns None
Miss == [ miss |-> TRUE ]

IdleClient ==
    [ pc |-> "idle", op |-> "none", file_path |-> "", metrics |-> Miss,
      cache_entry |-> NoEntry, existing |-> NoEntry, result |-> Miss,
      found |-> NoEntry, at |-> 0, done_at |-> 0,
      written |-> [ f \in Files |-> Miss ], stale |-> {},
      ops |-> 0, ticks |-> 0 ]

\* the frame of one audit run's store loop (_compute_metrics, "Store in
\* cache"), before it starts
IdleWriter ==
    [ pc |-> "idle", repo_id |-> None, commit_sha |-> "", metrics_dict |-> << >>,
      wi |-> 1, cache_entry |-> NoEntry, existing |-> NoEntry,
      overlapped |-> FALSE ]

Writers == { 1, 2 }

IdleWriters == [ w \in Writers |-> IdleWriter ]

\* no function call in progress
NoCall == [ op |-> "none" ]

(***************************************************************************)
(* Initial states: an empty store, or the store an earlier audit of the    *)
(* same repository and commit left behind (every scanner returned)         *)
(***************************************************************************)
EarlierRepo == CHOOSE r \in RepoIds : TRUE
EarlierCommit == CHOOSE c \in CommitShas : TRUE
EarlierSnapshot == << << "a.py", MetricsBig("a.py") >> >>

EarlierScans ==
    [ i \in 1..Len(ScannerTasks) |->
        [ ScanResult(ScannerTasks[i], EarlierRepo, EarlierSnapshot)
          EXCEPT !.audit_run_id = 1, !.id = i ] ]

RECURSIVE LinkAll(_, _, _)
LinkAll(audit_run, scans, i) ==
    IF i > Len(scans) THEN audit_run
    ELSE LinkAll(Link(audit_run, scans[i].scan_type, scans[i].id), scans, i + 1)

RECURSIVE SumScores(_, _)
SumScores(scans, i) ==
    IF i > Len(scans) THEN 0 ELSE scans[i].score + SumScores(scans, i + 1)

RECURSIVE SumFindings(_, _)
SumFindings(scans, i) ==
    IF i > Len(scans) THEN 0 ELSE Len(scans[i].findings) + SumFindings(scans, i + 1)

EarlierRun ==
    [ LinkAll([ NewAuditRun(EarlierRepo, EarlierCommit) EXCEPT !.id = 1 ],
              EarlierScans, 1)
      EXCEPT !.status = "completed",
             !.overall_score = OverallScore(SumScores(EarlierScans, 1),
                                            Len(EarlierScans)),
             !.total_issues = SumFindings(EarlierScans, 1) ]

EarlierCache ==
    { [ NewCacheEntry(EarlierRepo, EarlierCommit, EarlierSnapshot[i][1],
                      EarlierSnapshot[i][2], 0) EXCEPT !.id = i ] :
      i \in 1..Len(EarlierSnapshot) }

EarlierWritten ==
    [ f \in Files |->
        IF \E i \in 1..Len(EarlierSnapshot) : EarlierSnapshot[i][1] = f
        THEN EarlierSnapshot[CHOOSE i \in 1..Len(EarlierSnapshot) :
                                 EarlierSnapshot[i][1] = f][2]
        ELSE Miss ]

InitEmpty ==
    /\ auditRuns = << >>
    /\ dimScans = << >>
    /\ cache = {}
    /\ nextCacheId = 1
    /\ now = 0
    /\ cl = IdleClient

\* the earlier audit ran at time 0; its cache entries are fresh, or have
\* just expired
InitEarlier ==
    /\ auditRuns = << EarlierRun >>
    /\ dimScans = EarlierScans
    /\ cache = EarlierCache
    /\ nextCacheId = Len(EarlierSnapshot) + 1
    /\ now \in { 1, DEFAULT_TTL + 1 }
    /\ cl = [ IdleClient EXCEPT !.written = EarlierWritten ]

Init ==
    /\ InitEmpty \/ InitEarlier
    /\ faults = 0
    /\ tr = IdleTrigger
    /\ ex = IdleExecute
    /\ wr = IdleWriters
    /\ call = NoCall

(***************************************************************************)
(* trigger_v3_audit and create_audit_run                                   *)
(***************************************************************************)
\* create_audit_run: the AuditRun is saved with status "pending"; a failing
\* save raises and trigger_v3_audit answers 500
CreateAuditRun(repo_id, commit_sha) ==
    /\ tr.pc = "idle"
    /\ ex.pc = "idle"
    /\ \/ /\ auditRuns' = Append(auditRuns,
                [ NewAuditRun(repo_id, commit_sha) EXCEPT !.id = Len(auditRuns) + 1 ])
          /\ tr' = [ tr EXCEPT !.pc = "created",
                               !.audit_run_id = Len(auditRuns) + 1 ]
          /\ UNCHANGED faults
       \/ /\ MayFail
          /\ faults' = faults + 1
          /\ tr' = [ tr EXCEPT !.pc = "done" ]
          /\ UNCHANGED auditRuns
    /\ UNCHANGED << dimScans, cache, nextCacheId, now, ex, cl, wr, call >>

\* scan_dir = Path(tempfile.mkdtemp(prefix="v3_audit_")): outside the inner
\* try; when it raises trigger_v3_audit answers 500
TriggerMkdtemp ==
    /\ tr.pc = "created"
    /\ \/ /\ tr' = [ tr EXCEPT !.pc = "tempdir", !.scan_dir = "exists" ]
          /\ UNCHANGED faults
       \/ /\ MayFail
          /\ faults' = faults + 1
          /\ tr' = [ tr EXCEPT !.pc = "done" ]
    /\ UNCHANGED << auditRuns, dimScans, cache, nextCacheId, now, ex, cl, wr, call >>

\* AuditScanner(); await v2_scanner._clone_repo(repo_url, token, scan_dir):
\* the archive is downloaded and extracted, or the call raises (a status
\* other than 200, a network error, a bad archive) and control goes to the
\* finally clause
TriggerClone ==
    /\ tr.pc = "tempdir"
    /\ \/ /\ tr' = [ tr EXCEPT !.pc = "cloned" ]
          /\ UNCHANGED faults
       \/ /\ MayFail
          /\ faults' = faults + 1
          /\ tr' = [ tr EXCEPT !.pc = "clone_failed" ]
    /\ UNCHANGED << auditRuns, dimScans, cache, nextCacheId, now, ex, cl, wr, call >>

\* trigger_v3_audit calls orchestrator.execute(audit_run_id=audit_run.id, ...)
TriggerExecute ==
    /\ tr.pc = "cloned"
    /\ tr' = [ tr EXCEPT !.pc = "executing" ]
    /\ ex' = [ IdleExecute EXCEPT !.pc = "start", !.audit_run_id = tr.audit_run_id ]
    /\ UNCHANGED << auditRuns, dimScans, cache, nextCacheId, now, faults, cl, wr, call >>

\* execute returned or raised: control goes to the finally clause
TriggerReturn ==
    /\ tr.pc = "executing"
    /\ ex.pc \in { "returned", "raised" }
    /\ tr' = [ tr EXCEPT !.pc = "finally" ]
    /\ UNCHANGED << auditRuns, dimScans, cache, nextCacheId, now, faults, ex, cl, wr, call >>

\* finally: if scan_dir.exists(): shutil.rmtree(scan_dir); then
\* trigger_v3_audit answers (the run, or 500)
TriggerCleanup ==
    /\ tr.pc \in { "finally", "clone_failed" }
    /\ \/ /\ tr' = [ tr EXCEPT !.pc = IF tr.pc = "finally" THEN "idle" ELSE "done",
                               !.scan_dir = "removed" ]
          /\ UNCHANGED faults
       \/ /\ MayFail
          /\ faults' = faults + 1
          /\ tr' = [ tr EXCEPT !.pc = IF tr.pc = "finally" THEN "idle" ELSE "done" ]
    /\ UNCHANGED << auditRuns, dimScans, cache, nextCacheId, now, ex, cl, wr, call >>

\* a caller of the orchestrator's API calls execute on any run id, whatever
\* the run's status
ApiExecute(audit_run_id) ==
    /\ tr.pc = "idle"
    /\ ex.pc = "idle"
    /\ ex' = [ IdleExecute EXCEPT !.pc = "start", !.audit_run_id = audit_run_id ]
    /\ UNCHANGED << auditRuns, dimScans, cache, nextCacheId, now, faults, tr, cl, wr, call >>

(***************************************************************************)
(* AuditOrchestratorV3.execute                                             *)
(***************************************************************************)
\* AuditRun.save(): the stored document of that id is replaced
RunSaved(audit_run) == [ auditRuns EXCEPT ![audit_run.id] = audit_run ]

\* audit_run = await AuditRun.get(audit_run_id); ValueError when not found
ExecGet ==
    /\ ex.pc = "start"
    /\ \/ /\ ex.audit_run_id \in 1..Len(auditRuns)
          /\ ex' = [ ex EXCEPT !.pc = "loaded",
                               !.audit_run = auditRuns[ex.audit_run_id] ]
          /\ UNCHANGED faults
       \/ /\ ex.audit_run_id \notin 1..Len(auditRuns)
          /\ ex' = [ ex EXCEPT !.pc = "raised", !.failed_at = "not_found" ]
          /\ UNCHANGED faults
       \/ /\ MayFail
          /\ faults' = faults + 1
          /\ ex' = [ ex EXCEPT !.pc = "raised", !.failed_at = "get" ]
    /\ UNCHANGED << auditRuns, dimScans, cache, nextCacheId, now, tr, cl, wr, call >>

\* audit_run.status = "running"; await audit_run.save()   (before the try)
ExecSetRunning ==
    /\ ex.pc = "loaded"
    /\ LET running == [ ex.audit_run EXCEPT !.status = "running" ]
       IN \/ /\ auditRuns' = RunSaved(running)
             /\ ex' = [ ex EXCEPT !.pc = "compute", !.audit_run = running ]
             /\ UNCHANGED faults
          \/ /\ MayFail
             /\ faults' = faults + 1
             /\ ex' = [ ex EXCEPT !.pc = "raised", !.audit_run = running,
                                  !.failed_at = "save_running" ]
             /\ UNCHANGED auditRuns
    /\ UNCHANGED << dimScans, cache, nextCacheId, now, tr, cl, wr, call >>

\* _compute_metrics, steps 1 to 3: metrics_dict of the files of scan_dir
ComputeMetrics(snapshot) ==
    /\ ex.pc = "compute"
    /\ ex' = [ ex EXCEPT !.pc = "store", !.metrics_dict = snapshot, !.wi = 1 ]
    /\ UNCHANGED << auditRuns, dimScans, cache, nextCacheId, now, faults, tr, cl, wr, call >>

\* _compute_metrics, step 4, one set_metrics call up to its find_one
StoreFind ==
    /\ ex.pc = "store"
    /\ ~StoreLoopDone(ex.wi, ex.metrics_dict)
    /\ LET rel_path == ex.metrics_dict[ex.wi][1]
           file_metrics == ex.metrics_dict[ex.wi][2]
           built == NewCacheEntry(ex.audit_run.repo_id, ex.audit_run.commit_sha,
                                  rel_path, file_metrics, now)
           hits == CacheFind(ex.audit_run.repo_id, ex.audit_run.commit_sha, rel_path)
       IN \/ /\ hits = {}
             /\ ex' = [ ex EXCEPT !.pc = "store_save", !.cache_entry = built,
                                  !.existing = NoEntry ]
             /\ UNCHANGED faults
          \/ /\ \E e \in hits :
                   ex' = [ ex EXCEPT !.pc = "store_save", !.cache_entry = built,
                                     !.existing = e ]
             /\ UNCHANGED faults
          \/ /\ MayFail
             /\ faults' = faults + 1
             /\ ex' = [ ex EXCEPT !.pc = "handler", !.failed_at = "set_metrics" ]
    /\ UNCHANGED << auditRuns, dimScans, cache, nextCacheId, now, tr, cl, wr, call >>

\* the same set_metrics call from the return of find_one to its save
StoreSave ==
    /\ ex.pc = "store_save"
    /\ LET file_metrics == ex.metrics_dict[ex.wi][2]
       IN \/ /\ cache' = SetMetricsSave(ex.cache_entry, ex.existing, file_metrics, now)
             /\ nextCacheId' = IF ex.existing = NoEntry
                               THEN nextCacheId + 1 ELSE nextCacheId
             /\ ex' = [ ex EXCEPT !.pc = "store", !.wi = ex.wi + 1,
                                  !.cache_entry = NoEntry, !.existing = NoEntry ]
             /\ UNCHANGED faults
          \/ /\ MayFail
             /\ faults' = faults + 1
             /\ ex' = [ ex EXCEPT !.pc = "handler", !.failed_at = "set_metrics" ]
             /\ UNCHANGED << cache, nextCacheId >>
    /\ UNCHANGED << auditRuns, dimScans, now, tr, cl, wr, call >>

\* _compute_metrics returns; the six scan coroutines are handed to gather
LaunchScanners ==
    /\ ex.pc = "store"
    /\ StoreLoopDone(ex.wi, ex.metrics_dict)
    /\ ex' = [ ex EXCEPT !.pc = "gather",
                         !.scanner_status = [ d \in Dimensions |-> "running" ] ]
    /\ UNCHANGED << auditRuns, dimScans, cache, nextCacheId, now, faults, tr, cl, wr, call >>

\* one scanner's scan returns its DimensionScanResult
ScannerReturns(d) ==
    /\ ex.pc = "gather"
    /\ ex.scanner_status[d] = "running"
    /\ \E outcome \in AiOutcomes :
         ex' = [ ex EXCEPT
                   !.scanner_status[d] = "returned",
                   !.scan_results[d] =
                       Scan(d, ex.audit_run.repo_id, ex.metrics_dict, outcome),
                   !.ai_calls =
                       IF AiCalled(d, ScanResult(d, ex.audit_run.repo_id,
                                                 ex.metrics_dict), outcome)
                       THEN @ \cup { d } ELSE @,
                   !.first_done = IF ex.first_done = "" THEN d
                                  ELSE ex.first_done ]
    /\ UNCHANGED << auditRuns, dimScans, cache, nextCacheId, now, faults, tr, cl, wr, call >>

\* one scanner's scan raises
ScannerRaises(d) ==
    /\ ex.pc = "gather"
    /\ ex.scanner_status[d] = "running"
    /\ ex' = [ ex EXCEPT !.scanner_status[d] = "raised",
                         !.scan_results[d] = ScannerException(d),
                         !.first_done = IF ex.first_done = "" THEN d
                                        ELSE ex.first_done ]
    /\ UNCHANGED << auditRuns, dimScans, cache, nextCacheId, now, faults, tr, cl, wr, call >>

\* scan_results = await asyncio.gather(...): execute resumes
GatherReturns ==
    /\ ex.pc = "gather"
    /\ GatherDone(ex.scanner_status)
    /\ IF ReturnExceptions \/ \A d \in Dimensions : ~IsException(ex.scan_results[d])
       THEN ex' = [ ex EXCEPT !.pc = "results", !.ri = 1, !.total_issues = 0,
                              !.score_sum = 0, !.successful_scans = 0 ]
       ELSE ex' = [ ex EXCEPT !.pc = "handler", !.failed_at = "scanner" ]
    /\ UNCHANGED << auditRuns, dimScans, cache, nextCacheId, now, faults, tr, cl, wr, call >>

\* result.audit_run_id = audit_run.id; await result.save() inserts the result
SavedResult(result, audit_run) ==
    [ result EXCEPT !.audit_run_id = audit_run.id, !.id = Len(dimScans) + 1 ]

\* "Step 4", one iteration of `for result in scan_results`
HandleResult ==
    /\ ex.pc = "results"
    /\ ex.ri <= Len(ScannerTasks)
    /\ LET result == ex.scan_results[ScannerTasks[ex.ri]]
       IN IF IsException(result)
          THEN /\ ex' = [ ex EXCEPT !.ri = ex.ri + 1 ]
               /\ UNCHANGED << dimScans, faults >>
          ELSE \/ LET saved == SavedResult(result, ex.audit_run)
                  IN /\ dimScans' = Append(dimScans, saved)
                     /\ ex' = [ ex EXCEPT
                           !.ri = ex.ri + 1,
                           !.audit_run = Link(ex.audit_run, saved.scan_type, saved.id),
                           !.total_issues = ex.total_issues + Len(saved.findings),
                           !.score_sum = ex.score_sum + saved.score,
                           !.successful_scans = ex.successful_scans + 1 ]
                     /\ UNCHANGED faults
               \/ /\ MayFail
                  /\ faults' = faults + 1
                  /\ ex' = [ ex EXCEPT !.pc = "handler", !.failed_at = "result_save" ]
                  /\ UNCHANGED dimScans
    /\ UNCHANGED << auditRuns, cache, nextCacheId, now, tr, cl, wr, call >>

\* "Step 5" and "Mark as completed": overall_score, total_issues, status, save
Complete ==
    /\ ex.pc = "results"
    /\ ex.ri > Len(ScannerTasks)
    /\ LET completed ==
               [ ex.audit_run EXCEPT
                   !.overall_score = OverallScore(ex.score_sum, ex.successful_scans),
                   !.total_issues = ex.total_issues,
                   !.status = "completed" ]
       IN \/ /\ auditRuns' = RunSaved(completed)
             /\ ex' = [ ex EXCEPT !.pc = "returned", !.audit_run = completed ]
             /\ UNCHANGED faults
          \/ /\ MayFail
             /\ faults' = faults + 1
             /\ ex' = [ ex EXCEPT !.pc = "handler", !.audit_run = completed,
                                  !.failed_at = "save_completed" ]
             /\ UNCHANGED auditRuns
    /\ UNCHANGED << dimScans, cache, nextCacheId, now, tr, cl, wr, call >>

\* except Exception: audit_run.status = "failed"; await audit_run.save(); raise
Handler ==
    /\ ex.pc = "handler"
    /\ LET failed == [ ex.audit_run EXCEPT !.status = "failed" ]
       IN \/ /\ auditRuns' = RunSaved(failed)
             /\ ex' = [ ex EXCEPT !.pc = "raised", !.audit_run = failed ]
             /\ UNCHANGED faults
          \/ /\ MayFail
             /\ faults' = faults + 1
             /\ ex' = [ ex EXCEPT !.pc = "raised", !.audit_run = failed ]
             /\ UNCHANGED auditRuns
    /\ UNCHANGED << dimScans, cache, nextCacheId, now, tr, cl, wr, call >>

Execute ==
    \/ ExecGet
    \/ ExecSetRunning
    \/ \E snapshot \in Snapshots : ComputeMetrics(snapshot)
    \/ StoreFind
    \/ StoreSave
    \/ LaunchScanners
    \/ \E d \in Dimensions : ScannerReturns(d)
    \/ \E d \in Dimensions : ScannerRaises(d)
    \/ GatherReturns
    \/ HandleResult
    \/ Complete
    \/ Handler

(***************************************************************************)
(* Specifications                                                          *)
(***************************************************************************)
\* the program as trigger_v3_audit drives it: one request
Next ==
    \/ \E r \in RepoIds, c \in CommitShas : CreateAuditRun(r, c)
    \/ TriggerMkdtemp
    \/ TriggerClone
    \/ TriggerExecute
    \/ TriggerReturn
    \/ TriggerCleanup
    \/ Execute

Spec == Init /\ [][Next]_vars

\* the orchestrator as a caller of its API may drive it: execute is also
\* called on a run that exists already, or on an id of no run
NextApi ==
    \/ Next
    \/ \E id \in 1..(Len(auditRuns) + 1) : ApiExecute(id)

SpecApi == Init /\ [][NextApi]_vars

(***************************************************************************)
(* FileMetricCacheService called directly, one call after the other        *)
(***************************************************************************)
\* what get_metrics returns at time utcnow when find_one returned `found`
GetMetricsResult(found, utcnow) ==
    IF found = NoEntry THEN Miss
    ELSE IF Expired(found, utcnow) THEN Miss
    ELSE EntryMetrics(found)

\* the collection after get_metrics: `await cache_entry.delete()` when expired
GetMetricsCache(found, utcnow) ==
    IF found # NoEntry /\ Expired(found, utcnow)
    THEN { e \in cache : e.id # found.id }
    ELSE cache

\* get_metrics(repo_id, commit_sha, file_path)
\* (cl.found, cl.at and cl.stale record the call for the properties below)
GetMetrics(repo_id, commit_sha, file_path) ==
    /\ cl.pc = "idle"
    /\ ex.pc = "idle" /\ tr.pc = "idle"
    /\ cl.ops < MaxCacheOps
    /\ LET hits == CacheFind(repo_id, commit_sha, file_path)
       IN \E found \in (IF hits = {} THEN { NoEntry } ELSE hits) :
            /\ cache' = GetMetricsCache(found, now)
            /\ cl' = [ cl EXCEPT
                  !.op = "get", !.file_path = file_path, !.found = found,
                  !.at = now, !.done_at = now,
                  !.result = GetMetricsResult(found, now),
                  !.stale = IF found # NoEntry /\ now - found.computed_at > found.ttl
                            THEN cl.stale \cup { file_path } ELSE cl.stale,
                  !.ops = cl.ops + 1 ]
    /\ UNCHANGED << auditRuns, dimScans, nextCacheId, now, faults, tr, ex, wr, call >>

\* set_metrics(repo_id, commit_sha, file_path, metrics) up to its find_one
SetMetricsFind(repo_id, commit_sha, file_path, metrics) ==
    /\ cl.pc = "idle"
    /\ ex.pc = "idle" /\ tr.pc = "idle"
    /\ cl.ops < MaxCacheOps
    /\ LET hits == CacheFind(repo_id, commit_sha, file_path)
       IN \E found \in (IF hits = {} THEN { NoEntry } ELSE hits) :
            cl' = [ cl EXCEPT
                  !.pc = "set_save", !.op = "set", !.file_path = file_path,
                  !.metrics = metrics, !.at = now,
                  !.cache_entry = NewCacheEntry(repo_id, commit_sha, file_path,
                                                metrics, now),
                  !.existing = found,
                  !.ops = cl.ops + 1 ]
    /\ UNCHANGED << auditRuns, dimScans, cache, nextCacheId, now, faults, tr, ex, wr, call >>

\* set_metrics from the return of find_one to its save
SetMetricsSaved ==
    /\ cl.pc = "set_save"
    /\ cache' = SetMetricsSave(cl.cache_entry, cl.existing, cl.metrics, now)
    /\ nextCacheId' = IF cl.existing = NoEntry THEN nextCacheId + 1 ELSE nextCacheId
    /\ cl' = [ cl EXCEPT !.pc = "idle", !.done_at = now,
                         !.cache_entry = NoEntry, !.existing = NoEntry,
                         !.written[cl.file_path] = cl.metrics,
                         !.stale = cl.stale \ { cl.file_path } ]
    /\ UNCHANGED << auditRuns, dimScans, now, faults, tr, ex, wr, call >>

\* time passes: a second, or (between two calls) the length of the TTL
Tick(seconds) ==
    /\ ex.pc = "idle" /\ tr.pc = "idle"
    /\ cl.pc = "idle" \/ seconds = 1
    /\ cl.ticks < MaxTicks
    /\ now' = now + seconds
    /\ cl' = [ cl EXCEPT !.ticks = cl.ticks + 1 ]
    /\ UNCHANGED << auditRuns, dimScans, cache, nextCacheId, faults, tr, ex, wr, call >>

ClientMetrics(f) == { MetricsHot(f), MetricsClean(f) }

NextCache ==
    \/ \E r \in RepoIds, c \in CommitShas, f \in Files : GetMetrics(r, c, f)
    \/ \E r \in RepoIds, c \in CommitShas, f \in Files :
          \E m \in ClientMetrics(f) : SetMetricsFind(r, c, f, m)
    \/ SetMetricsSaved
    \/ \E seconds \in { 1, DEFAULT_TTL } : Tick(seconds)

SpecCache == Init /\ [][NextCache]_vars

(***************************************************************************)
(* Properties                                                              *)
(***************************************************************************)
Returned == { d \in Dimensions : ex.scanner_status[d] = "returned" }
Raised == { d \in Dimensions : ex.scanner_status[d] = "raised" }

RECURSIVE SumOver(_, _)
SumOver(S, f) ==
    IF S = {} THEN 0
    ELSE LET x == CHOOSE y \in S : TRUE IN f[x] + SumOver(S \ { x }, f)

\* the run the execute in progress was called on, as persisted
PersistedRun == auditRuns[ex.audit_run_id]

\* the persisted DimensionScanResults of one run and one dimension
ScansOf(audit_run_id, dimension) ==
    { i \in 1..Len(dimScans) : /\ dimScans[i].audit_run_id = audit_run_id
                               /\ dimScans[i].scan_type = dimension }

\* C1: when a step of execute other than a scanner's scan fails (a cache
\* write, the save of a DimensionScanResult, a save of the AuditRun), execute
\* raises and the persisted AuditRun has status "failed".
C1_OrchestrationFailureMarksRunFailed ==
    ( /\ ex.pc = "raised"
      /\ ex.failed_at \in { "save_running", "set_metrics", "result_save",
                            "save_completed" } )
    => PersistedRun.status = "failed"

\* C2: whatever subset of the six scanners raises, with persistence working
\* execute returns a completed run; a dimension that raised adds nothing to
\* the score sum, the issue count or the number of successful scans, has no
\* persisted result and its reference field is unset; every dimension that
\* returned is persisted, linked and counted.
C2_ScannerFailuresAreNotFatal ==
    /\ ex.pc \in { "handler", "raised" } => ex.failed_at # "scanner"
    /\ faults = 0 => ex.pc \notin { "handler", "raised" }
    /\ ( ex.pc = "results" /\ ex.ri > Len(ScannerTasks) ) =>
          /\ ex.successful_scans = Cardinality(Returned)
          /\ ex.score_sum =
                SumOver(Returned, [ d \in Returned |-> ex.scan_results[d].score ])
          /\ ex.total_issues =
                SumOver(Returned,
                        [ d \in Returned |-> Len(ex.scan_results[d].findings) ])
    /\ ex.pc = "returned" =>
          /\ ex.audit_run.status = "completed"
          /\ PersistedRun = ex.audit_run
          /\ Returned \cup Raised = Dimensions
          /\ \A d \in Raised :
                /\ ScanIdOf(PersistedRun, d) = None
                /\ ScansOf(ex.audit_run_id, d) = {}
          /\ \A d \in Returned :
                /\ ScanIdOf(PersistedRun, d) \in ScansOf(ex.audit_run_id, d)
                /\ dimScans[ScanIdOf(PersistedRun, d)].score = ex.scan_results[d].score

C2_Witness ==
    /\ ex.pc = "returned"
    /\ Raised = { "maintainability", "security" }
    /\ PersistedRun.status = "completed"
    /\ PersistedRun.total_issues > 0

\* C3: the persisted status of an AuditRun starts "pending" and only moves
\* pending -> running -> completed or failed; once "completed" or "failed" no
\* operation of the orchestrator, a repeated execute included, changes it.
C3_StatusOnlyMovesForward ==
    [][ /\ \A r \in 1..Len(auditRuns) :
             \/ auditRuns'[r].status = auditRuns[r].status
             \/ << auditRuns[r].status, auditRuns'[r].status >> \in
                   { << "pending", "running" >>, << "running", "completed" >>,
                     << "running", "failed" >> }
        /\ \A r \in (Len(auditRuns) + 1)..Len(auditRuns') :
             auditRuns'[r].status = "pending" ]_vars

\* C4: when execute completes, overall_score is the truncated integer mean of
\* the scores of exactly the scans that returned (0 when none returned) and
\* total_issues is the sum of their finding counts.
C4_OverallScoreIsTruncatedMean ==
    ex.pc = "returned" =>
        LET n == Cardinality(Returned)
            sum == SumOver(Returned, [ d \in Returned |-> ex.scan_results[d].score ])
            q == PersistedRun.overall_score
        IN /\ n = 0 => q = 0
           /\ n > 0 => ( q * n <= sum /\ sum < (q + 1) * n )
           /\ PersistedRun.total_issues =
                 SumOver(Returned,
                         [ d \in Returned |-> Len(ex.scan_results[d].findings) ])
           /\ ex.audit_run.overall_score = q
           /\ ex.audit_run.total_issues = PersistedRun.total_issues

\* a completed run whose mean is not an integer: the truncation shows
C4_Witness ==
    /\ ex.pc = "returned"
    /\ LET n == Cardinality(Returned)
           sum == SumOver(Returned, [ d \in Returned |-> ex.scan_results[d].score ])
       IN n > 0 /\ sum % n # 0 /\ PersistedRun.overall_score * n < sum

\* C5: whatever executes are called, a repeated execute on the same run
\* included, at most one persisted DimensionScanResult exists per (audit run,
\* dimension), and a persisted result is never written again.
C5_OneResultPerRunAndDimension ==
    /\ [] ( \A i \in 1..Len(dimScans) :
               ScansOf(dimScans[i].audit_run_id, dimScans[i].scan_type) = { i } )
    /\ [][ \A i \in 1..Len(dimScans) : dimScans'[i] = dimScans[i] ]_vars

\* C6: aggregation and the transition to "completed" happen only after all
\* six scanners have terminated, whichever of them finished first, and the
\* aggregate is a function of the metrics and of the set of scanners that
\* raised alone: it does not depend on the order in which they finished.
C6_FanInWaitsForAllScanners ==
    /\ ( ex.pc \in { "results", "returned" } \/ ex.successful_scans > 0
         \/ ( ex.pc = "gather" /\ PersistedRun.status = "completed" ) )
       => Returned \cup Raised = Dimensions
    /\ ex.pc = "returned" =>
          LET score == [ d \in Returned |->
                           calculate_score(ScanFindings(d, ex.metrics_dict)) ]
              count == [ d \in Returned |->
                           Len(ScanFindings(d, ex.metrics_dict)) ]
              n == Cardinality(Returned)
          IN /\ PersistedRun.total_issues = SumOver(Returned, count)
             /\ PersistedRun.overall_score =
                   IF n = 0 THEN 0 ELSE SumOver(Returned, score) \div n

\* the scanner launched last finished first and the first launched is still
\* running: nothing is aggregated, the run is still "running"
C6_Witness ==
    /\ ex.pc = "gather"
    /\ ex.first_done = "security"
    /\ ex.scanner_status["code_quality"] = "running"
    /\ Cardinality(Returned \cup Raised) >= 2
    /\ PersistedRun.status = "running"
    /\ ex.successful_scans = 0

\* C7: when the first scanner starts, every set_metrics of the run's metric
\* pre-pass has completed (every file of metrics_dict has its entry in the
\* cache), and no step taken while the scanners run changes the cache.
C7_MetricsCommittedBeforeScanners ==
    /\ [] ( (\E d \in Dimensions : ex.scanner_status[d] # "idle") =>
              /\ ex.wi = Len(ex.metrics_dict) + 1
              /\ ex.pc \notin { "compute", "store", "store_save" }
              /\ \A i \in 1..Len(ex.metrics_dict) :
                    \E e \in CacheFind(ex.audit_run.repo_id,
                                       ex.audit_run.commit_sha,
                                       ex.metrics_dict[i][1]) :
                       EntryMetrics(e) = ex.metrics_dict[i][2] )
    /\ [][ ex.pc = "gather" =>
              /\ cache' = cache
              /\ nextCacheId' = nextCacheId
              /\ ex'.metrics_dict = ex.metrics_dict ]_vars

C7_Witness ==
    /\ ex.pc = "gather"
    /\ Len(ex.metrics_dict) = 2
    /\ \E d \in Dimensions : ex.scanner_status[d] = "running"
    /\ \E d \in Dimensions : ex.scanner_status[d] = "returned"
    /\ Cardinality(cache) = 2

\* C8: in every completed AuditRun each set reference field refers to a
\* persisted DimensionScanResult of that dimension and of that run, and the
\* field of a dimension is set if and only if its scanner returned.
C8_ReferencesMatchSuccessfulScans ==
    /\ \A r \in 1..Len(auditRuns) :
          auditRuns[r].status = "completed" =>
             \A d \in Dimensions :
                LET id == ScanIdOf(auditRuns[r], d)
                IN id # None =>
                      /\ id \in 1..Len(dimScans)
                      /\ dimScans[id].id = id
                      /\ dimScans[id].scan_type = d
                      /\ dimScans[id].audit_run_id = r
    /\ ( ex.pc \in { "returned", "raised" } /\ ex.audit_run_id \in 1..Len(auditRuns)
         /\ PersistedRun.status = "completed" ) =>
          \A d \in Dimensions :
             ScanIdOf(PersistedRun, d) # None <=> d \in Returned

C8_Witness ==
    /\ ex.pc = "returned"
    /\ PersistedRun.status = "completed"
    /\ ex.audit_run_id = 2
    /\ ScanIdOf(PersistedRun, "testing_confidence") # None
    /\ ScanIdOf(PersistedRun, "code_quality") = None
    /\ "code_quality" \in Raised

\* the entries of the key (repo, commit, file) the direct caller uses
KeyEntries(file_path) == CacheFind(EarlierRepo, EarlierCommit, file_path)

\* C9: a get_metrics that finds an entry older than its ttl returns a miss
\* and removes the entry, and every later get_metrics on the key is a miss
\* until the next set_metrics; one that finds an entry no older than its ttl
\* returns the stored metrics and leaves the entry in place.
C9_ExpiredReadIsMissAndDeletes ==
    /\ ( cl.op = "get" /\ cl.found # NoEntry ) =>
          IF cl.at - cl.found.computed_at > cl.found.ttl
          THEN /\ cl.result = Miss
               /\ \A e \in cache : e.id # cl.found.id
          ELSE /\ cl.result = EntryMetrics(cl.found)
               /\ cl.result = cl.written[cl.file_path]
               /\ cl.found \in cache
    /\ ( cl.op = "get" /\ cl.found = NoEntry ) => cl.result = Miss
    /\ \A f \in cl.stale : KeyEntries(f) = {}
    /\ ( cl.op = "get" /\ cl.file_path \in cl.stale ) => cl.result = Miss

\* a second get_metrics on a key whose entry an earlier get_metrics found
\* expired and deleted: it finds nothing
C9_Witness ==
    /\ cl.op = "get"
    /\ cl.file_path \in cl.stale
    /\ cl.found = NoEntry
    /\ cl.result = Miss
    /\ cl.written[cl.file_path] # Miss

\* C10: set_metrics is an upsert: called one after the other, the calls leave
\* at most one entry per key, holding the metrics of the last set_metrics on
\* the key; right after a call exactly one entry of the key exists, its
\* computed_at is a time of that call, and a get_metrics that follows
\* immediately returns the metrics written.
C10_SetMetricsIsUpsert ==
    /\ \A f \in Files :
          /\ Cardinality(KeyEntries(f)) <= 1
          /\ \A e \in KeyEntries(f) : EntryMetrics(e) = cl.written[f]
    /\ ( cl.op = "set" /\ cl.pc = "idle" ) =>
          /\ Cardinality(KeyEntries(cl.file_path)) = 1
          /\ \A e \in KeyEntries(cl.file_path) :
                /\ EntryMetrics(e) = cl.metrics
                /\ cl.at <= e.computed_at /\ e.computed_at <= cl.done_at
                /\ now = cl.done_at => GetMetricsResult(e, now) = cl.metrics

\* set_metrics on a key whose previous entry had expired: the entry is
\* updated in place, with new metrics and a new computed_at
C10_Witness ==
    /\ cl.op = "set" /\ cl.pc = "idle"
    /\ cl.metrics # EarlierWritten[cl.file_path]
    /\ now = cl.done_at
    /\ \E e \in KeyEntries(cl.file_path) :
          /\ e \notin EarlierCache
          /\ \E old \in EarlierCache : old.id = e.id /\ Expired(old, cl.at)
          /\ e.computed_at > DEFAULT_TTL
          /\ EntryMetrics(e) = cl.metrics

(***************************************************************************)
(* Two audit runs in their store loops at the same time                    *)
(* (_compute_metrics, "Store in cache": set_metrics per file)              *)
(***************************************************************************)
\* commit SHAs of the audit runs that store concurrently
WriterCommits == { "HEAD", "abc123" }

\* metrics_dict of the audit runs that store concurrently
WriterSnapshots ==
    { << << "a.py", MetricsHot("a.py") >> >>,
      << << "b.py", MetricsClean("b.py") >> >>,
      << << "a.py", MetricsClean("a.py") >>, << "b.py", MetricsEdge("b.py") >> >> }

\* (overlapped records that a set_metrics of the run began while a
\* set_metrics of the other run was between its find_one and its save)
\* each run enters its store loop with its commit and its metrics_dict
InitWriters ==
    /\ InitEmpty \/ InitEarlier
    /\ faults = 0
    /\ tr = IdleTrigger
    /\ ex = IdleExecute
    /\ call = NoCall
    /\ wr \in [ Writers ->
                 { [ IdleWriter EXCEPT !.pc = "loop", !.repo_id = EarlierRepo,
                                       !.commit_sha = c, !.metrics_dict = m ] :
                     c \in WriterCommits, m \in WriterSnapshots } ]

\* set_metrics of run w, up to the return of its find_one (an await: the
\* clock has advanced when it returns)
WriterFind(w) ==
    /\ wr[w].pc = "loop"
    /\ wr[w].wi <= Len(wr[w].metrics_dict)
    /\ LET file_path == wr[w].metrics_dict[wr[w].wi][1]
           metrics == wr[w].metrics_dict[wr[w].wi][2]
           hits == CacheFind(wr[w].repo_id, wr[w].commit_sha, file_path)
       IN \E found \in (IF hits = {} THEN { NoEntry } ELSE hits) :
            wr' = [ wr EXCEPT
                      ![w].pc = "save",
                      ![w].cache_entry =
                          NewCacheEntry(wr[w].repo_id, wr[w].commit_sha,
                                        file_path, metrics, now),
                      ![w].existing = found,
                      ![w].overlapped =
                          \/ wr[w].overlapped
                          \/ \E v \in Writers \ { w } : wr[v].pc = "save" ]
    /\ now' = now + 1
    /\ UNCHANGED << auditRuns, dimScans, cache, nextCacheId, faults, tr, ex,
                    cl, call >>

\* set_metrics of run w, from the return of find_one to its save
WriterSave(w) ==
    /\ wr[w].pc = "save"
    /\ cache' = SetMetricsSave(wr[w].cache_entry, wr[w].existing,
                               wr[w].metrics_dict[wr[w].wi][2], now)
    /\ nextCacheId' = IF wr[w].existing = NoEntry THEN nextCacheId + 1
                      ELSE nextCacheId
    /\ wr' = [ wr EXCEPT ![w].pc = "loop", ![w].wi = wr[w].wi + 1,
                         ![w].cache_entry = NoEntry, ![w].existing = NoEntry ]
    /\ UNCHANGED << auditRuns, dimScans, now, faults, tr, ex, cl, call >>

NextWriters ==
    \/ \E w \in Writers : WriterFind(w)
    \/ \E w \in Writers : WriterSave(w)

SpecWriters == InitWriters /\ [][NextWriters]_vars

\* the (repo, commit, file) key of a cache entry
KeyOf(e) == << e.repo_id, e.commit_sha, e.file_path >>

\* the keys run w writes
WriterKeys(w) ==
    { << wr[w].repo_id, wr[w].commit_sha, wr[w].metrics_dict[i][1] >> :
        i \in 1..Len(wr[w].metrics_dict) }

\* what a collection holds, whatever the ids and the times of the writes
Content(c) == { << KeyOf(e), EntryMetrics(e) >> : e \in c }

\* the collection c after one set_metrics that nothing interleaves with
SetMetricsAlone(c, repo_id, commit_sha, file_path, metrics) ==
    LET hits == { e \in c : KeyOf(e) = << repo_id, commit_sha, file_path >> }
        fresh == CHOOSE n \in 1..(Cardinality(c) + nextCacheId) :
                    \A e \in c : e.id # n
    IN IF hits # {}
       THEN LET existing == CHOOSE e \in hits : TRUE
            IN { e \in c : e.id # existing.id }
                 \cup { UpdatedCacheEntry(existing, metrics, now) }
       ELSE c \cup { [ NewCacheEntry(repo_id, commit_sha, file_path, metrics, now)
                         EXCEPT !.id = fresh ] }

\* the collection c after the whole store loop of run w, from its i-th file
RECURSIVE StoreLoopAlone(_, _, _)
StoreLoopAlone(c, w, i) ==
    IF i > Len(wr[w].metrics_dict) THEN c
    ELSE StoreLoopAlone(
            SetMetricsAlone(c, wr[w].repo_id, wr[w].commit_sha,
                            wr[w].metrics_dict[i][1], wr[w].metrics_dict[i][2]),
            w, i + 1)

\* the collection the two runs started from
WritersInitialCache == IF Len(auditRuns) = 0 THEN {} ELSE EarlierCache

WritersDone == \A w \in Writers : wr[w].pc = "loop" /\ wr[w].wi > Len(wr[w].metrics_dict)

\* C11: when two audit runs store metrics under disjoint (repo, commit, file)
\* keys, however their set_metrics calls interleave the cache ends up holding
\* what it holds when one run stores after the other (in either order), and
\* every set_metrics leaves the entries of every other key as they were.
C11_DifferentKeysNeverInterfere ==
    /\ [] ( ( WritersDone /\ WriterKeys(1) \cap WriterKeys(2) = {} ) =>
              \A o \in { << 1, 2 >>, << 2, 1 >> } :
                 LET alone == StoreLoopAlone(
                                 StoreLoopAlone(WritersInitialCache, o[1], 1),
                                 o[2], 1)
                 IN /\ Content(cache) = Content(alone)
                    /\ Cardinality(cache) = Cardinality(alone) )
    /\ [][ \A w \in Writers :
              ( wr[w].pc = "save" /\ wr'[w].pc = "loop" ) =>
                 \A e \in cache \cup cache' :
                    KeyOf(e) # KeyOf(wr[w].cache_entry) =>
                       ( e \in cache /\ e \in cache' ) ]_vars

\* both runs stored the same file under different commits, their set_metrics
\* overlapping, over a cache that held an entry of one of the keys
C11_Witness ==
    /\ WritersDone
    /\ WriterKeys(1) \cap WriterKeys(2) = {}
    /\ wr[1].commit_sha # wr[2].commit_sha
    /\ wr[1].metrics_dict[1][1] = wr[2].metrics_dict[1][1]
    /\ wr[1].overlapped /\ wr[2].overlapped
    /\ WritersInitialCache # {}
    /\ Cardinality(cache) >= 3

(***************************************************************************)
(* GitDiffAnalyzer                                                         *)
(***************************************************************************)
\* every other part of the program is at rest while a function is called
InitIdle ==
    /\ InitEmpty
    /\ faults = 0
    /\ tr = IdleTrigger
    /\ ex = IdleExecute
    /\ wr = IdleWriters

\* paths `git diff --name-only` may print
DiffPaths == { "a.py", "b.py", "c.py" }

\* outcomes of subprocess.run(["git", "ls-files"], timeout=10): the process
\* exits (return code, number of lines on stdout), or run raises
LsFilesOutcomes ==
    { [ kind |-> "exit", returncode |-> rc, lines |-> n ] :
        rc \in { 0, 128 }, n \in 0..MaxTracked }
    \cup { [ kind |-> "timeout" ], [ kind |-> "error" ] }

\* a line of stdout: its characters, a path counting as one character that
\* is not white space
DiffLines ==
    { << "a.py" >>, << "b.py" >>, << >>, << " " >>, << " ", "c.py", " " >>,
      << "my", " ", "file.py" >> }

RECURSIVE StdoutsOf(_)
StdoutsOf(n) ==
    IF n = 0 THEN { << >> }
    ELSE StdoutsOf(n - 1)
         \cup { Append(out, l) : out \in { o \in StdoutsOf(n - 1) : Len(o) = n - 1 },
                                 l \in DiffLines }

\* outcomes of subprocess.run(["git", "diff", "--name-only", prev, curr],
\* timeout=30): the process exits (return code, the lines of stdout), the
\* timeout expires, or run raises something else
DiffOutcomes ==
    { [ kind |-> "exit", returncode |-> rc, stdout |-> out ] :
        rc \in { 0, 128 }, out \in StdoutsOf(MaxDiffLines) }
    \cup { [ kind |-> "timeout", returncode |-> None, stdout |-> << >> ],
           [ kind |-> "error", returncode |-> None, stdout |-> << >> ] }

RECURSIVE LStrip(_)
LStrip(line) ==
    IF line # << >> /\ Head(line) = " " THEN LStrip(Tail(line)) ELSE line

RECURSIVE RStrip(_)
RStrip(line) ==
    IF line # << >> /\ line[Len(line)] = " "
    THEN RStrip(SubSeq(line, 1, Len(line) - 1)) ELSE line

\* line.strip()
Strip(line) == RStrip(LStrip(line))

\* the loop over result.stdout.splitlines()
RECURSIVE ParseLines(_, _)
ParseLines(changed_files, lines) ==
    IF lines = << >> THEN changed_files
    ELSE LET file_path == Strip(Head(lines))
         IN ParseLines(IF file_path # << >> THEN changed_files \cup { file_path }
                       ELSE changed_files,
                       Tail(lines))

\* the body of the try of get_changed_files: what it returns, or that an
\* exception leaves it
ChangedFilesTry(diff) ==
    IF diff.kind # "exit" THEN [ raised |-> TRUE, value |-> {} ]
    ELSE IF diff.returncode # 0 THEN [ raised |-> FALSE, value |-> {} ]
    ELSE [ raised |-> FALSE, value |-> ParseLines({}, diff.stdout) ]

\* mutant of ChangedFilesExcept: no except clause
ChangedFilesUncaught(tried) == tried

\* except subprocess.TimeoutExpired / except Exception: return set()
ChangedFilesExcept(tried) ==
    IF tried.raised THEN [ raised |-> FALSE, value |-> {} ] ELSE tried

\* GitDiffAnalyzer.get_changed_files, given the outcome of its git diff:
\* the set it returns
get_changed_files(diff) == ChangedFilesExcept(ChangedFilesTry(diff)).value

\* GitDiffAnalyzer.should_full_scan, given the outcomes of its two processes
\* (len(changed) > total_files * 0.5, in integers)
should_full_scan(prev_commit_sha, ls_files, diff) ==
    IF prev_commit_sha = "" THEN TRUE
    ELSE IF ls_files.kind # "exit" THEN TRUE
    ELSE LET total_files == ls_files.lines
             changed == get_changed_files(diff)
         IN 2 * Cardinality(changed) > total_files

InitGit ==
    /\ InitIdle
    /\ call \in { [ op |-> "should_full_scan", done |-> FALSE,
                    prev_commit_sha |-> p, ls_files |-> l, diff |-> d,
                    result |-> FALSE ] :
                  p \in { "", "abc123" }, l \in LsFilesOutcomes, d \in DiffOutcomes }
          \cup
          { [ op |-> "get_changed_files", done |-> FALSE, diff |-> d,
              result |-> [ raised |-> FALSE, value |-> {} ] ] : d \in DiffOutcomes }

\* await should_full_scan(prev_commit_sha, curr_commit_sha, repo_path)
ShouldFullScan ==
    /\ call.op = "should_full_scan" /\ ~call.done
    /\ call' = [ call EXCEPT
                   !.done = TRUE,
                   !.result = should_full_scan(call.prev_commit_sha,
                                               call.ls_files, call.diff) ]
    /\ UNCHANGED << auditRuns, dimScans, cache, nextCacheId, now, faults, tr,
                    ex, cl, wr >>

\* await get_changed_files(prev_commit_sha, curr_commit_sha, repo_path)
GetChangedFiles ==
    /\ call.op = "get_changed_files" /\ ~call.done
    /\ call' = [ call EXCEPT
                   !.done = TRUE,
                   !.result = ChangedFilesExcept(ChangedFilesTry(call.diff)) ]
    /\ UNCHANGED << auditRuns, dimScans, cache, nextCacheId, now, faults, tr,
                    ex, cl, wr >>

NextGit ==
    \/ ShouldFullScan
    \/ GetChangedFiles

SpecGit == InitGit /\ [][NextGit]_vars

\* the paths on the lines of an output that are not blank
PathsOf(stdout) ==
    { Strip(stdout[i]) : i \in { j \in 1..Len(stdout) :
                                    \E k \in 1..Len(stdout[j]) : stdout[j][k] # " " } }

\* the process ran to a zero exit: its output can be trusted
Obtained(outcome) == outcome.kind = "exit" /\ outcome.returncode = 0

\* C12: should_full_scan returns true when there is no previous commit, when
\* more than half of the tracked files changed, and whenever the diff or the
\* listing of tracked files exits non-zero, times out or errors.
C12_FullScanOnUncertainty ==
    ( call.op = "should_full_scan" /\ call.done ) =>
        /\ call.prev_commit_sha = "" => call.result
        /\ ( Obtained(call.ls_files) /\ Obtained(call.diff)
             /\ 2 * Cardinality(PathsOf(call.diff.stdout)) > call.ls_files.lines )
           => call.result
        /\ ( ~Obtained(call.ls_files) \/ ~Obtained(call.diff) ) => call.result

\* the metrics the execute in progress computed for a file, if it did
ComputedFor(file_path) ==
    { ex.metrics_dict[i][2] : i \in { j \in 1..Len(ex.metrics_dict) :
                                         ex.metrics_dict[j][1] = file_path } }

\* C13: an audit of a commit whose files were analysed before reuses the
\* cache: while execute runs, a fresh cache entry of the run's commit for a
\* file whose metrics have not changed is not written again (only changed
\* files are recomputed and rewritten).
C13_UnchangedFilesComeFromCache ==
    [][ \A e \in cache :
           ( /\ ex.pc \in { "store", "store_save" }
             /\ ~Expired(e, now)
             /\ e.repo_id = ex.audit_run.repo_id
             /\ e.commit_sha = ex.audit_run.commit_sha
             /\ ComputedFor(e.file_path) = { EntryMetrics(e) } )
           => e \in cache' ]_vars

(***************************************************************************)
(* RevFloConfig (config_parser.py)                                         *)
(* A YAML scalar is a value with its Python type; a dict is a function     *)
(* from its keys.                                                          *)
(***************************************************************************)
\* (s: the text of a string; v: the value of a number, True being 1)
String(s) == [ type |-> "str", v |-> 0, s |-> s ]
Bool(b) == [ type |-> "bool", v |-> IF b THEN 1 ELSE 0, s |-> "" ]
Number(n) == [ type |-> "int", v |-> n, s |-> "" ]

EmptyDict == [ k \in {} |-> 0 ]

\* dict.update: d after d.update(u)
Update(d, u) ==
    [ k \in DOMAIN d \cup DOMAIN u |-> IF k \in DOMAIN u THEN u[k] ELSE d[k] ]

DEFAULT_CONFIG ==
    [ rules |->
        [ hotspot |->
            [ enabled |-> Bool(TRUE),
              thresholds |-> [ complexity |-> Number(25), churn |-> Number(10) ],
              severity |-> String("critical") ],
          deep_nesting |->
            [ enabled |-> Bool(TRUE),
              thresholds |-> [ indent_depth |-> Number(6) ],
              severity |-> String("high") ],
          large_file |->
            [ enabled |-> Bool(TRUE),
              thresholds |-> [ loc |-> Number(300) ],
              severity |-> String("medium") ],
          complex_module |->
            [ enabled |-> Bool(TRUE),
              thresholds |-> [ complexity |-> Number(35) ],
              severity |-> String("high") ],
          no_tests |->
            [ enabled |-> Bool(TRUE),
              thresholds |-> [ min_loc |-> Number(100) ],
              severity |-> String("medium") ] ],
      pr_comments |->
        [ enabled |-> Bool(TRUE), severity_filter |-> String("critical_high") ] ]

VALID_SEVERITIES == { "critical", "high", "medium", "low" }
valid_filters == { "all", "critical_high", "critical" }

\* one rule of _merge_with_defaults: config["rules"][rule_name].update(
\* rule_config) binds "thresholds" to the dict of the override itself, and
\* the "deep merge" then updates that dict with its own items
MergeRule(default_rule, rule_config) ==
    LET updated == Update(default_rule, rule_config)
    IN IF "thresholds" \in DOMAIN rule_config
       THEN [ updated EXCEPT
                !.thresholds = Update(updated.thresholds, rule_config.thresholds) ]
       ELSE updated

\* RevFloConfig._merge_with_defaults (settings.pr_comments is held as
\* pr_comments)
merge_with_defaults(user_config) ==
    [ rules |->
        [ rule_name \in DOMAIN DEFAULT_CONFIG.rules |->
            IF rule_name \in DOMAIN user_config.rules
            THEN MergeRule(DEFAULT_CONFIG.rules[rule_name],
                           user_config.rules[rule_name])
            ELSE DEFAULT_CONFIG.rules[rule_name] ],
      pr_comments |-> Update(DEFAULT_CONFIG.pr_comments, user_config.pr_comments) ]

\* isinstance(x, bool); isinstance(x, (int, float)): bool is a subclass of int
IsBool(x) == x.type = "bool"
IsNumber(x) == x.type \in { "int", "float", "bool" }
\* the value a number compares as (True is 1, False is 0)
NumberValue(x) == x.v

\* RevFloConfig._validate: TRUE when it raises no ValueError
validate(config) ==
    /\ \A rule_name \in DOMAIN config.rules :
          LET rule_config == config.rules[rule_name]
          IN /\ rule_config.severity.type = "str"
             /\ rule_config.severity.s \in VALID_SEVERITIES
             /\ IsBool(rule_config.enabled)
             /\ \A threshold_name \in DOMAIN rule_config.thresholds :
                   LET threshold_value == rule_config.thresholds[threshold_name]
                   IN /\ IsNumber(threshold_value)
                      /\ ~(NumberValue(threshold_value) < 0)
    /\ IsBool(config.pr_comments.enabled)
    /\ config.pr_comments.severity_filter.type = "str"
    /\ config.pr_comments.severity_filter.s \in valid_filters

ValueError == [ error |-> "ValueError" ]

\* RevFloConfig(config_dict): the configuration object, or the error raised
RevFloConfig(config_dict) ==
    LET config == merge_with_defaults(config_dict)
    IN IF validate(config) THEN [ config |-> config ] ELSE ValueError

\* RevFloConfig.get_threshold: thresholds.get(threshold_name, 0)
get_threshold(cfg, rule_name, threshold_name) ==
    LET thresholds == cfg.config.rules[rule_name].thresholds
    IN IF threshold_name \in DOMAIN thresholds THEN thresholds[threshold_name]
       ELSE Number(0)

(***************************************************************************)
(* Override documents                                                      *)
(***************************************************************************)
\* rule names an override document gives: a built-in rule, and a name that
\* is no built-in rule
OverrideRuleNames == { "hotspot", "custom_rule" }

OverrideRuleConfigs ==
    { Update(Update(e, sv), t) :
        e \in { EmptyDict, [ enabled |-> Bool(FALSE) ], [ enabled |-> String("yes") ] },
        sv \in { EmptyDict, [ severity |-> String("low") ], [ severity |-> String("urgent") ] },
        t \in { EmptyDict,
                [ thresholds |-> [ complexity |-> Number(30) ] ],
                [ thresholds |-> [ complexity |-> Number(0 - 1) ] ],
                [ thresholds |-> [ churn |-> Bool(TRUE) ] ],
                [ thresholds |-> [ complexity |-> String("high"), churn |-> Number(5) ] ] } }

OverridePrComments ==
    { EmptyDict, [ severity_filter |-> String("all") ],
      [ severity_filter |-> String("none") ] }

OverrideDocuments ==
    { [ rules |-> r, pr_comments |-> pc ] :
        r \in UNION { [ D -> OverrideRuleConfigs ] : D \in SUBSET OverrideRuleNames },
        pc \in OverridePrComments }

InitConfig ==
    /\ InitIdle
    /\ call \in { [ op |-> "RevFloConfig", done |-> FALSE, config_dict |-> d,
                    result |-> ValueError ] : d \in OverrideDocuments }

\* RevFloConfig(config_dict)
LoadConfig ==
    /\ call.op = "RevFloConfig" /\ ~call.done
    /\ call' = [ call EXCEPT !.done = TRUE,
                             !.result = RevFloConfig(call.config_dict) ]
    /\ UNCHANGED << auditRuns, dimScans, cache, nextCacheId, now, faults, tr,
                    ex, cl, wr >>

NextConfig == LoadConfig

SpecConfig == InitConfig /\ [][NextConfig]_vars

\* what the override document gives for a rule is invalid
InvalidRule(rule_config) ==
    \/ /\ "severity" \in DOMAIN rule_config
       /\ ~( rule_config.severity.type = "str"
             /\ rule_config.severity.s \in { "critical", "high", "medium", "low" } )
    \/ /\ "enabled" \in DOMAIN rule_config
       /\ rule_config.enabled.type # "bool"
    \/ /\ "thresholds" \in DOMAIN rule_config
       /\ \E k \in DOMAIN rule_config.thresholds :
             ~( rule_config.thresholds[k].type \in { "int", "float" }
                /\ rule_config.thresholds[k].v >= 0 )

InvalidDocument(d) ==
    \/ \E rule_name \in DOMAIN d.rules : InvalidRule(d.rules[rule_name])
    \/ /\ "severity_filter" \in DOMAIN d.pr_comments
       /\ ~( d.pr_comments.severity_filter.type = "str"
             /\ d.pr_comments.severity_filter.s \in { "all", "critical_high", "critical" } )

\* C14: constructing the configuration from an override document in which a
\* rule's severity is not one of the four, a rule's enabled is not a boolean,
\* a threshold is not a non-negative number or the severity_filter is not one
\* of the three raises an error and yields no configuration object.
C14_InvalidDocumentIsRejected ==
    ( call.op = "RevFloConfig" /\ call.done /\ InvalidDocument(call.config_dict) )
    => call.result = ValueError

\* the value the document gives for a field of a built-in rule, else the
\* built-in default
Specified(d, rule_name, field) ==
    /\ rule_name \in DOMAIN d.rules
    /\ field \in DOMAIN d.rules[rule_name]

SpecifiedThreshold(d, rule_name, k) ==
    /\ Specified(d, rule_name, "thresholds")
    /\ k \in DOMAIN d.rules[rule_name].thresholds

\* C15: in the configuration built from a valid override document, every
\* enabled, severity and threshold key the document does not give keeps its
\* built-in default and every one it gives has the value of the document.
C15_OverrideIsDeepMerged ==
    ( call.op = "RevFloConfig" /\ call.done /\ call.result # ValueError ) =>
        \A rule_name \in DOMAIN DEFAULT_CONFIG.rules :
           LET d == call.config_dict
               default == DEFAULT_CONFIG.rules[rule_name]
               merged == call.result.config.rules[rule_name]
           IN /\ \A field \in { "enabled", "severity" } :
                    merged[field] = IF Specified(d, rule_name, field)
                                    THEN d.rules[rule_name][field]
                                    ELSE default[field]
              /\ \A k \in DOMAIN default.thresholds
                          \cup ( IF Specified(d, rule_name, "thresholds")
                                 THEN DOMAIN d.rules[rule_name].thresholds
                                 ELSE {} ) :
                    get_threshold(call.result, rule_name, k) =
                       IF SpecifiedThreshold(d, rule_name, k)
                       THEN d.rules[rule_name].thresholds[k]
                       ELSE default.thresholds[k]

(***************************************************************************)
(* calculate_score of the dimension scanners, called on any list           *)
(***************************************************************************)
\* Finding.severity: Literal["critical", "high", "medium", "low"]
Severities == { "critical", "high", "medium", "low" }

\* lists of at most n findings, one file each
FindingLists(n) ==
    UNION { [ 1..k -> { Finding("RULE", sv, "category", "a.py") : sv \in Severities } ] :
              k \in 0..n }

InitScore ==
    /\ InitIdle
    /\ call \in { [ op |-> "calculate_score", done |-> FALSE, findings |-> fs,
                    result |-> 0 ] : fs \in FindingLists(MaxFindings) }

\* scanner.calculate_score(findings)
CalculateScore ==
    /\ call.op = "calculate_score" /\ ~call.done
    /\ call' = [ call EXCEPT !.done = TRUE,
                             !.result = calculate_score(call.findings) ]
    /\ UNCHANGED << auditRuns, dimScans, cache, nextCacheId, now, faults, tr,
                    ex, cl, wr >>

NextScore == CalculateScore

SpecScore == InitScore /\ [][NextScore]_vars

\* the number of items of a list with a severity
CountSeverity(items, severity) ==
    Cardinality({ i \in 1..Len(items) : items[i].severity = severity })

Reverse(items) == [ i \in 1..Len(items) |-> items[Len(items) + 1 - i] ]

\* C16: calculate_score of a list of findings is
\* max(0, 100 - (20*critical + 10*high + 5*medium + 2*low)), the counts being
\* those of the findings of each severity: it lies in 0..100 and depends on
\* the counts only, not on the order of the list.
C16_ScoreIsFlooredDeduction ==
    ( call.op = "calculate_score" /\ call.done ) =>
        LET total == 20 * CountSeverity(call.findings, "critical")
                     + 10 * CountSeverity(call.findings, "high")
                     + 5 * CountSeverity(call.findings, "medium")
                     + 2 * CountSeverity(call.findings, "low")
        IN /\ call.result = IF total > 100 THEN 0 ELSE 100 - total
           /\ call.result \in 0..100
           /\ calculate_score(Reverse(call.findings)) = call.result

\* six findings whose deductions add up to more than 100: the score is 0
C16_Witness ==
    /\ call.op = "calculate_score" /\ call.done
    /\ CountSeverity(call.findings, "critical") = 5
    /\ CountSeverity(call.findings, "low") = 1
    /\ call.findings[1].severity = "low"
    /\ call.result = 0

(***************************************************************************)
(* Legacy scoring: calculate_score of scanner.py                           *)
(***************************************************************************)
\* RiskItem of risk_engine.py (the id is a fresh uuid: left out)
RiskItem(rule_type, severity, file_path) ==
    [ rule_type |-> rule_type, severity |-> severity, file_path |-> file_path ]

LegacyDeduction(severity) ==
    CASE severity = "critical" -> 15
      [] severity = "high" -> 10
      [] severity = "medium" -> 5
      [] severity = "low" -> 2
      [] OTHER -> 0

RECURSIVE LegacyDeductAll(_, _)
LegacyDeductAll(score, findings) ==
    IF findings = << >> THEN score
    ELSE LegacyDeductAll(score - LegacyDeduction(Head(findings).severity),
                         Tail(findings))

\* mutant of legacy_calculate_score: the deductions of the dimension scanners
legacy_calculate_score_v3(findings) == Max(0, DeductAll(100, findings))

\* calculate_score(findings) of scanner.py
legacy_calculate_score(findings) == Max(0, LegacyDeductAll(100, findings))

RiskItemLists(n) ==
    UNION { [ 1..k -> { RiskItem("Hotspot", sv, "a.py") : sv \in Severities } ] :
              k \in 0..n }

InitLegacyScore ==
    /\ InitIdle
    /\ call \in { [ op |-> "legacy_calculate_score", done |-> FALSE,
                    findings |-> fs, result |-> 0, calls |-> 0 ] :
                  fs \in RiskItemLists(MaxRiskItems) }

\* calculate_score(findings), called once and then once more on the same list
LegacyCalculateScore ==
    /\ call.op = "legacy_calculate_score" /\ call.calls < 2
    /\ call' = [ call EXCEPT !.done = TRUE, !.calls = call.calls + 1,
                             !.result = legacy_calculate_score(call.findings),
                             !.findings = IF call.calls = 0 THEN call.findings
                                          ELSE Reverse(call.findings) ]
    /\ UNCHANGED << auditRuns, dimScans, cache, nextCacheId, now, faults, tr,
                    ex, cl, wr >>

NextLegacyScore == LegacyCalculateScore

SpecLegacyScore == InitLegacyScore /\ [][NextLegacyScore]_vars

\* C17: the legacy calculate_score of a list of risk items is
\* max(0, 100 - (15*critical + 10*high + 5*medium + 2*low)): 100 for the empty
\* list, never negative, the same on a second call and for the list in
\* another order.
C17_LegacyScoreIsFlooredDeduction ==
    /\ [] ( ( call.op = "legacy_calculate_score" /\ call.done ) =>
              LET total == 15 * CountSeverity(call.findings, "critical")
                           + 10 * CountSeverity(call.findings, "high")
                           + 5 * CountSeverity(call.findings, "medium")
                           + 2 * CountSeverity(call.findings, "low")
              IN /\ call.result = IF total > 100 THEN 0 ELSE 100 - total
                 /\ call.result >= 0
                 /\ call.findings = << >> => call.result = 100
                 /\ legacy_calculate_score(Reverse(call.findings)) = call.result )
    /\ [][ ( call.op = "legacy_calculate_score" /\ call.done )
           => call'.result = call.result ]_vars

\* seven critical items: 105 deducted, the score is 0 on both calls
C17_Witness ==
    /\ call.op = "legacy_calculate_score" /\ call.calls = 2
    /\ CountSeverity(call.findings, "critical") = 7
    /\ call.result = 0

(***************************************************************************)
(* Legacy RiskEngine (risk_engine.py)                                      *)
(***************************************************************************)
\* RevFloConfig.is_rule_enabled, get_severity
is_rule_enabled(cfg, rule_name) == cfg.config.rules[rule_name].enabled.v = 1
get_severity(cfg, rule_name) == cfg.config.rules[rule_name].severity.s

\* mutant of Exceeds: a metric on its threshold fires the rule
ExceedsOrEquals(metric, threshold) == metric >= threshold.v

\* `metric > threshold` of the rules of analyze, the threshold being what
\* get_threshold returned
Exceeds(metric, threshold) == metric > threshold.v

\* the paths analyze filters out: a pattern of
\* ['test', 'spec', '__test__', '__tests__'] occurs in the lowered path
TestPaths == { "test_auth.py" }

\* churn_metrics.get(path, 0)
ChurnOf(churn_metrics, path) ==
    IF path \in DOMAIN churn_metrics THEN churn_metrics[path] ELSE 0

\* the body of the loop of analyze over production_files: the findings
\* appended for one file, the five rules one after the other
FileRisks(cfg, file, churn_metrics) ==
    LET path == file.path
        complexity == file.complexity
        loc == file.loc
        indent == file.indent_depth
        churn == ChurnOf(churn_metrics, path)
    IN (IF /\ is_rule_enabled(cfg, "hotspot")
           /\ Exceeds(complexity, get_threshold(cfg, "hotspot", "complexity"))
           /\ Exceeds(churn, get_threshold(cfg, "hotspot", "churn"))
        THEN << RiskItem("Hotspot", get_severity(cfg, "hotspot"), path) >>
        ELSE << >>)
       \o
       (IF /\ is_rule_enabled(cfg, "deep_nesting")
           /\ Exceeds(indent, get_threshold(cfg, "deep_nesting", "indent_depth"))
        THEN << RiskItem("Deep Nesting", get_severity(cfg, "deep_nesting"), path) >>
        ELSE << >>)
       \o
       (IF /\ is_rule_enabled(cfg, "large_file")
           /\ Exceeds(loc, get_threshold(cfg, "large_file", "loc"))
        THEN << RiskItem("Large File", get_severity(cfg, "large_file"), path) >>
        ELSE << >>)
       \o
       (IF /\ is_rule_enabled(cfg, "complex_module")
           /\ Exceeds(complexity, get_threshold(cfg, "complex_module", "complexity"))
        THEN << RiskItem("Complex Module", get_severity(cfg, "complex_module"), path) >>
        ELSE << >>)
       \o
       (IF /\ is_rule_enabled(cfg, "no_tests")
           /\ Exceeds(loc, get_threshold(cfg, "no_tests", "min_loc"))
           /\ ~file.has_test
        THEN << RiskItem("No Tests", get_severity(cfg, "no_tests"), path) >>
        ELSE << >>)

\* RiskEngine(config).analyze(file_metrics, churn_metrics)
RECURSIVE analyze(_, _, _)
analyze(cfg, file_metrics, churn_metrics) ==
    IF file_metrics = << >> THEN << >>
    ELSE (IF Head(file_metrics).path \in TestPaths THEN << >>
          ELSE FileRisks(cfg, Head(file_metrics), churn_metrics))
         \o analyze(cfg, Tail(file_metrics), churn_metrics)

(***************************************************************************)
(* The rules of both generations applied to files around the thresholds    *)
(***************************************************************************)
\* file_metrics entries of the legacy engine
LegacyFiles ==
    { [ path |-> p, complexity |-> c, loc |-> l, indent_depth |-> i,
        has_test |-> t ] :
        p \in { "auth.py" } \cup TestPaths, c \in { 25, 26, 35, 36, 45 },
        l \in { 100, 101, 300, 301 }, i \in { 6, 7 }, t \in BOOLEAN }

\* churn_metrics of the legacy engine
LegacyChurns ==
    { EmptyDict } \cup { [ p \in { "auth.py" } |-> c ] : c \in { 10, 11, 15 } }

NoOverride == [ rules |-> EmptyDict, pr_comments |-> EmptyDict ]

\* the configurations of the engine: RevFloConfig(), and one that disables
\* the hotspot rule
LegacyConfigs ==
    { RevFloConfig(NoOverride),
      RevFloConfig([ rules |-> [ hotspot |-> [ enabled |-> Bool(FALSE) ] ],
                     pr_comments |-> EmptyDict ]) }

\* metric_cache of the dimension scanners: no file, one file around the
\* thresholds, or that file and a second one
ScanMetrics(f) ==
    { FileMetrics(f, l, c, i, ch, t, "python") :
        l \in { 100, 101, 300, 301 }, c \in { 15, 16, 20, 21, 25, 26, 45 },
        i \in { 5, 6 }, ch \in { 10, 11, 15 }, t \in BOOLEAN }

ScanCaches ==
    { << >> }
    \cup { << << "a.py", m >> >> : m \in ScanMetrics("a.py") }
    \cup { << << "a.py", m >>, << "b.py", n >> >> :
             m \in ScanMetrics("a.py"),
             n \in { MetricsHot("b.py"), MetricsBig("b.py"),
                     MetricsClean("b.py"), MetricsEdge("b.py") } }

InitRules ==
    /\ InitIdle
    /\ call \in
          { [ op |-> "analyze", done |-> FALSE, cfg |-> cfg,
              file_metrics |-> << f >>, churn_metrics |-> ch,
              result |-> << >> ] :
              cfg \in LegacyConfigs, f \in LegacyFiles, ch \in LegacyChurns }
          \cup
          { [ op |-> "scan", done |-> FALSE, metric_cache |-> mc,
              result |-> [ d \in Dimensions |-> NoResult ] ] :
              mc \in ScanCaches }

\* RiskEngine(config).analyze(file_metrics, churn_metrics)
RiskAnalyze ==
    /\ call.op = "analyze" /\ ~call.done
    /\ call' = [ call EXCEPT
                   !.done = TRUE,
                   !.result = analyze(call.cfg, call.file_metrics,
                                      call.churn_metrics) ]
    /\ UNCHANGED << auditRuns, dimScans, cache, nextCacheId, now, faults, tr,
                    ex, cl, wr >>

\* scan(repo_context, changed_files, metric_cache) of each of the six scanners
DimensionScan ==
    /\ call.op = "scan" /\ ~call.done
    /\ \E outcome \in AiOutcomes :
         call' = [ call EXCEPT
                     !.done = TRUE,
                     !.result = [ d \in Dimensions |->
                                    Scan(d, EarlierRepo, call.metric_cache,
                                         outcome) ] ]
    /\ UNCHANGED << auditRuns, dimScans, cache, nextCacheId, now, faults, tr,
                    ex, cl, wr >>

NextRules ==
    \/ RiskAnalyze
    \/ DimensionScan

SpecRules == InitRules /\ [][NextRules]_vars

\* the rule types analyze returned for a path, in the order returned
RuleTypesFor(path) ==
    LET at == { i \in 1..Len(call.result) : call.result[i].file_path = path }
    IN { call.result[i].rule_type : i \in at }

\* the number of items analyze returned for a path with a rule type
CountRule(path, rule_type) ==
    Cardinality({ i \in 1..Len(call.result) :
                    /\ call.result[i].file_path = path
                    /\ call.result[i].rule_type = rule_type })

\* the four exclusive rules of the legacy engine, in priority order, with
\* the condition of each for a file under the configuration of the call
LegacyPriority == << "Hotspot", "Deep Nesting", "Large File", "Complex Module" >>

LegacyCondition(rule_type, file) ==
    LET cfg == call.cfg
        churn == ChurnOf(call.churn_metrics, file.path)
    IN CASE rule_type = "Hotspot" ->
               /\ is_rule_enabled(cfg, "hotspot")
               /\ file.complexity > get_threshold(cfg, "hotspot", "complexity").v
               /\ churn > get_threshold(cfg, "hotspot", "churn").v
         [] rule_type = "Deep Nesting" ->
               /\ is_rule_enabled(cfg, "deep_nesting")
               /\ file.indent_depth > get_threshold(cfg, "deep_nesting", "indent_depth").v
         [] rule_type = "Large File" ->
               /\ is_rule_enabled(cfg, "large_file")
               /\ file.loc > get_threshold(cfg, "large_file", "loc").v
         [] rule_type = "Complex Module" ->
               /\ is_rule_enabled(cfg, "complex_module")
               /\ file.complexity > get_threshold(cfg, "complex_module", "complexity").v

\* C18: the legacy analyze is first-match-wins: for a file it returns at most
\* one finding among Hotspot, Deep Nesting, Large File and Complex Module,
\* the first of them, in that order, whose condition holds.
C18_LegacyFirstMatchWins ==
    ( call.op = "analyze" /\ call.done ) =>
        \A n \in 1..Len(call.file_metrics) :
           LET file == call.file_metrics[n]
               holds == { k \in 1..Len(LegacyPriority) :
                            LegacyCondition(LegacyPriority[k], file) }
               found == RuleTypesFor(file.path) \cap
                           { LegacyPriority[k] : k \in 1..Len(LegacyPriority) }
           IN file.path \notin TestPaths =>
                 /\ Cardinality(found) <= 1
                 /\ holds # {} =>
                       LET first == CHOOSE k \in holds : \A j \in holds : k <= j
                       IN /\ found = { LegacyPriority[first] }
                          /\ CountRule(file.path, LegacyPriority[first]) = 1

\* the categories of the findings a scanner returned for a file
CategoriesFor(dimension, file_path) ==
    LET findings == call.result[dimension].findings
    IN { findings[i].category :
           i \in { j \in 1..Len(findings) : findings[j].file_path = file_path } }

\* C19: every threshold rule of both generations is strict: a metric equal
\* to its threshold does not fire the rule.  Legacy engine: churn equal to the
\* hotspot churn threshold gives no Hotspot whatever the complexity (nor does
\* complexity equal to its threshold), while complexity above the
\* complex_module threshold still gives a Complex Module; likewise for the
\* other legacy rules and for the rules of the dimension scanners.
C19_ThresholdsAreStrict ==
    /\ ( call.op = "analyze" /\ call.done ) =>
          \A n \in 1..Len(call.file_metrics) :
             LET file == call.file_metrics[n]
                 cfg == call.cfg
                 churn == ChurnOf(call.churn_metrics, file.path)
                 found == RuleTypesFor(file.path)
             IN /\ churn = get_threshold(cfg, "hotspot", "churn").v
                      => "Hotspot" \notin found
                /\ file.complexity = get_threshold(cfg, "hotspot", "complexity").v
                      => "Hotspot" \notin found
                /\ file.indent_depth = get_threshold(cfg, "deep_nesting", "indent_depth").v
                      => "Deep Nesting" \notin found
                /\ file.loc = get_threshold(cfg, "large_file", "loc").v
                      => "Large File" \notin found
                /\ file.complexity = get_threshold(cfg, "complex_module", "complexity").v
                      => "Complex Module" \notin found
                /\ file.loc = get_threshold(cfg, "no_tests", "min_loc").v
                      => "No Tests" \notin found
                /\ ( /\ file.path \notin TestPaths
                     /\ get_threshold(cfg, "hotspot", "complexity").v = 25
                     /\ get_threshold(cfg, "hotspot", "churn").v = 10
                     /\ churn = 10
                     /\ file.complexity > 35 )
                   => ( "Hotspot" \notin found /\ "Complex Module" \in found )
    /\ ( call.op = "scan" /\ call.done ) =>
          \A n \in 1..Len(call.metric_cache) :
             LET f == call.metric_cache[n][1]
                 m == call.metric_cache[n][2]
             IN /\ m.loc = LARGE_FILE_LOC
                      => "large_file" \notin CategoriesFor("code_quality", f)
                /\ m.complexity = COMPLEX_MODULE_COMPLEXITY
                      => "complex_module" \notin CategoriesFor("code_quality", f)
                /\ ( m.complexity = HOTSPOT_COMPLEXITY \/ m.churn_90d = HOTSPOT_CHURN )
                      => "hotspot" \notin CategoriesFor("maintainability", f)
                /\ m.loc = NO_TESTS_MIN_LOC
                      => "no_tests" \notin CategoriesFor("testing_confidence", f)
                /\ m.indent_depth = DEEP_NESTING_THRESHOLD
                      => "deep_nesting" \notin CategoriesFor("architecture", f)
                /\ m.complexity = HIGH_COMPLEXITY_THRESHOLD
                      => "high_complexity" \notin CategoriesFor("performance", f)

\* complexity 45 and churn exactly 10 under the default thresholds (25, 10):
\* no Hotspot, a Complex Module
C19_Witness ==
    /\ call.op = "analyze" /\ call.done
    /\ call.cfg = RevFloConfig(NoOverride)
    /\ call.file_metrics[1].path = "auth.py"
    /\ call.file_metrics[1].complexity = 45
    /\ ChurnOf(call.churn_metrics, "auth.py") = 10
    /\ RuleTypesFor("auth.py") \cap { "Hotspot", "Complex Module" } = { "Complex Module" }

\* the findings the rules of a dimension give for a file: (category, severity)
ExpectedFindings(dimension, m) ==
    CASE dimension = "code_quality" ->
            (IF m.loc > 300 THEN { << "large_file", "medium" >> } ELSE {})
            \cup
            (IF m.complexity > 20 THEN { << "complex_module", "medium" >> } ELSE {})
      [] dimension = "maintainability" ->
            IF m.complexity > 15 /\ m.churn_90d > 10
            THEN { << "hotspot", "high" >> } ELSE {}
      [] dimension = "testing_confidence" ->
            IF m.loc > 100 /\ ~m.has_test
            THEN { << "no_tests", "medium" >> } ELSE {}
      [] dimension = "architecture" ->
            IF m.indent_depth > 5 THEN { << "deep_nesting", "medium" >> } ELSE {}
      [] dimension = "performance" ->
            IF m.complexity > 25 THEN { << "high_complexity", "medium" >> } ELSE {}
      [] dimension = "security" -> {}

\* C20: the rules of the dimensions are evaluated independently per file:
\* the findings of each scanner are exactly one per (rule, file) whose
\* condition holds (large_file iff loc > 300, complex_module iff
\* complexity > 20, hotspot iff complexity > 15 and churn_90d > 10 with
\* severity high, no_tests iff loc > 100 and no test, deep_nesting iff
\* indent_depth > 5, high_complexity iff complexity > 25), whatever the other
\* dimensions find; security has no findings and scores 100.
C20_DimensionRulesAreIndependent ==
    ( call.op = "scan" /\ call.done ) =>
        /\ \A d \in Dimensions :
              LET findings == call.result[d].findings
                  expected == UNION { { << call.metric_cache[n][1], e[1], e[2] >> :
                                          e \in ExpectedFindings(d, call.metric_cache[n][2]) } :
                                      n \in 1..Len(call.metric_cache) }
              IN /\ { << findings[i].file_path, findings[i].category,
                         findings[i].severity >> : i \in 1..Len(findings) } = expected
                 /\ Len(findings) = Cardinality(expected)
                 /\ call.result[d].score = calculate_score(findings)
        /\ call.result["security"].findings = << >>
        /\ call.result["security"].score = 100

\* a file on which the rules of five dimensions fire at once (both rules of
\* code_quality), next to a second file on which none fires
C20_Witness ==
    /\ call.op = "scan" /\ call.done
    /\ Len(call.metric_cache) = 2
    /\ Len(call.result["code_quality"].findings) = 2
    /\ call.result["code_quality"].score = 90
    /\ Len(call.result["maintainability"].findings) = 1
    /\ call.result["maintainability"].score = 90
    /\ call.metric_cache[1][2].complexity = 45
    /\ call.metric_cache[1][2].churn_90d = 15
    /\ \A d \in Dimensions \ { "code_quality", "maintainability", "security" } :
          Len(call.result[d].findings) = 1
    /\ call.metric_cache[2][2] = MetricsClean("b.py")

(***************************************************************************)
(* Repeated runs of the rule engines on the same input                     *)
(***************************************************************************)
\* the values str(uuid.uuid4()) may return during one run of analyze: which
\* stream of random ids a run draws is not determined by its arguments
UuidStreams == { "uuid-stream-1", "uuid-stream-2" }

\* the RiskItems analyze returns, each with the id drawn for it
WithIds(items, stream) ==
    [ i \in 1..Len(items) |->
        [ id |-> << stream, i >>, rule_type |-> items[i].rule_type,
          severity |-> items[i].severity, file_path |-> items[i].file_path ] ]

\* file_metrics of two files, and their churn
RepeatFiles ==
    { << [ path |-> "auth.py", complexity |-> c, loc |-> 200, indent_depth |-> 4,
           has_test |-> TRUE ],
         [ path |-> "utils.py", complexity |-> 10, loc |-> l, indent_depth |-> i,
           has_test |-> TRUE ] >> :
        c \in { 10, 30, 45 }, l \in { 50, 350 }, i \in { 2, 8 } }

RepeatChurns == { [ p \in { "auth.py" } |-> c ] : c \in { 5, 15 } }

\* metric_cache of two files
RepeatCaches ==
    { << << "a.py", m >>, << "b.py", n >> >> :
        m \in { MetricsHot("a.py"), MetricsBig("a.py"), MetricsClean("a.py"),
                MetricsEdge("a.py") },
        n \in { MetricsHot("b.py"), MetricsBig("b.py"), MetricsClean("b.py"),
                MetricsEdge("b.py") } }

InitRepeat ==
    /\ InitIdle
    /\ call \in
          { [ op |-> "analyze_again", runs |-> 0, cfg |-> RevFloConfig(NoOverride),
              file_metrics |-> fm, churn_metrics |-> ch,
              results |-> << >>, scores |-> << >> ] :
              fm \in RepeatFiles, ch \in RepeatChurns }
          \cup
          { [ op |-> "scan_again", runs |-> 0, metric_cache |-> mc,
              results |-> << >> ] : mc \in RepeatCaches }

\* the input of the next run: as given for the first two runs, with the files
\* in the opposite order for the third
RunInput(input) == IF call.runs < 2 THEN input ELSE Reverse(input)

\* one run of RiskEngine.analyze followed by calculate_score of its findings
AnalyzeAgain ==
    /\ call.op = "analyze_again" /\ call.runs < 3
    /\ \E stream \in UuidStreams :
         LET findings == WithIds(analyze(call.cfg, RunInput(call.file_metrics),
                                         call.churn_metrics), stream)
         IN call' = [ call EXCEPT
                        !.runs = call.runs + 1,
                        !.results = Append(call.results, findings),
                        !.scores = Append(call.scores,
                                          legacy_calculate_score(findings)) ]
    /\ UNCHANGED << auditRuns, dimScans, cache, nextCacheId, now, faults, tr,
                    ex, cl, wr >>

\* one run of the scan of each of the six scanners
ScanAgain ==
    /\ call.op = "scan_again" /\ call.runs < 3
    /\ \E outcome \in AiOutcomes :
         call' = [ call EXCEPT
                     !.runs = call.runs + 1,
                     !.results =
                         Append(call.results,
                                [ d \in Dimensions |->
                                    Scan(d, EarlierRepo,
                                         RunInput(call.metric_cache), outcome) ]) ]
    /\ UNCHANGED << auditRuns, dimScans, cache, nextCacheId, now, faults, tr,
                    ex, cl, wr >>

NextRepeat ==
    \/ AnalyzeAgain
    \/ ScanAgain

SpecRepeat == InitRepeat /\ [][NextRepeat]_vars

\* the items of a list, as a set
Items(list) == { list[i] : i \in 1..Len(list) }

\* C21: two runs of the legacy analyze, and of each dimension scanner, on the
\* same metrics, churn and configuration return identical findings (every
\* field, ids included) and identical scores, and a run on the files in
\* another order returns the same set of findings and the same score.
C21_ScanningIsDeterministic ==
    /\ ( call.op = "analyze_again" /\ call.runs = 3 ) =>
          /\ call.results[2] = call.results[1]
          /\ call.scores[2] = call.scores[1]
          /\ Items(call.results[3]) = Items(call.results[1])
          /\ call.scores[3] = call.scores[1]
    /\ ( call.op = "scan_again" /\ call.runs = 3 ) =>
          \A d \in Dimensions :
             /\ call.results[2][d].findings = call.results[1][d].findings
             /\ call.results[2][d].score = call.results[1][d].score
             /\ Items(call.results[3][d].findings) = Items(call.results[1][d].findings)
             /\ call.results[3][d].score = call.results[1][d].score

(***************************************************************************)
(* One scan with one outcome of the explanation request                    *)
(***************************************************************************)
InitAi ==
    /\ InitIdle
    /\ call \in { [ op |-> "scan_ai", done |-> FALSE, dimension |-> d,
                    metric_cache |-> mc, outcome |-> o, result |-> NoResult ] :
                    d \in Dimensions, mc \in RepeatCaches, o \in AiOutcomes }

\* scan of one scanner: what it returns, or the exception that leaves it
ScanAi ==
    /\ call.op = "scan_ai" /\ ~call.done
    /\ call' = [ call EXCEPT
                   !.done = TRUE,
                   !.result = Scan(call.dimension, EarlierRepo, call.metric_cache,
                                   call.outcome) ]
    /\ UNCHANGED << auditRuns, dimScans, cache, nextCacheId, now, faults, tr,
                    ex, cl, wr >>

NextAi == ScanAi

SpecAi == InitAi /\ [][NextAi]_vars

\* the result carries an explanation
Explained(result) ==
    result.ai_summary # NoSummary \/ result.recommendations # << >>

\* C22: in every DimensionScanResult a scanner returns, the explanation was
\* requested, and ai_summary or recommendations are set, only if the result
\* has at least one finding and a score below 90; a run whose six results
\* have no finding ends completed with overall_score 100 and no ai_summary.
C22_AiOnlyForUnhealthyDimensions ==
    /\ \A d \in Returned :
          ( d \in ex.ai_calls \/ Explained(ex.scan_results[d]) ) =>
             /\ Len(ex.scan_results[d].findings) >= 1
             /\ ex.scan_results[d].score < 90
    /\ \A i \in 1..Len(dimScans) :
          Explained(dimScans[i]) =>
             Len(dimScans[i].findings) >= 1 /\ dimScans[i].score < 90
    /\ ( /\ ex.pc \in { "returned", "raised" }
         /\ faults = 0
         /\ Returned = Dimensions
         /\ \A d \in Dimensions : ex.scan_results[d].findings = << >> ) =>
          /\ ex.pc = "returned"
          /\ PersistedRun.status = "completed"
          /\ PersistedRun.overall_score = 100
          /\ ex.ai_calls = {}
          /\ \A d \in Dimensions : \A i \in ScansOf(ex.audit_run_id, d) :
                dimScans[i].ai_summary = NoSummary

\* a run ended with the explanation of its code_quality result persisted
C22_Witness ==
    /\ ex.pc = "returned"
    /\ "code_quality" \in ex.ai_calls
    /\ \E i \in ScansOf(ex.audit_run_id, "code_quality") :
          /\ dimScans[i].ai_summary = "summary text"
          /\ dimScans[i].score < 90

\* the outcomes in which the explanation request fails
AiFailures == { "no_client", "provider_error", "timeout", "invalid_json", "not_object" }

\* C23: whatever the outcome of the explanation request, scan returns (no
\* exception leaves it) a result whose score, findings, status and file
\* counts are those of the result without the explanation step; when the
\* request fails ai_summary stays unset.
C23_AiIsScoreNeutralAndNonFatal ==
    ( call.op = "scan_ai" /\ call.done ) =>
       /\ ~IsException(call.result)
       /\ LET skipped == ScanResult(call.dimension, EarlierRepo, call.metric_cache)
          IN /\ [ call.result EXCEPT !.ai_summary = NoSummary,
                                     !.recommendations = << >> ] = skipped
             /\ call.result.score = calculate_score(call.result.findings)
       /\ call.outcome \in AiFailures => ~Explained(call.result)

\* the request failed for a result that has findings and a score below 90
C23_Witness ==
    /\ call.op = "scan_ai" /\ call.done
    /\ call.outcome \in AiFailures
    /\ AiPhase(call.dimension, call.result)
    /\ call.result.status = "completed"

(***************************************************************************)
(* get_all_for_commit and invalidate_old_entries, called while two audit   *)
(* runs store their metrics                                                *)
(***************************************************************************)
\* timedelta(days=1).total_seconds()
SecondsPerDay == 86400

InvalidateDays == { 0, 30 }

InitReaders ==
    /\ InitEmpty \/ InitEarlier
    /\ faults = 0
    /\ tr = IdleTrigger
    /\ ex = IdleExecute
    /\ wr \in [ Writers ->
                 { [ IdleWriter EXCEPT !.pc = "loop", !.repo_id = EarlierRepo,
                                       !.commit_sha = c, !.metrics_dict = m ] :
                     c \in WriterCommits, m \in WriterSnapshots } ]
    /\ call \in
          { [ op |-> "get_all_for_commit", pc |-> "idle", repo_id |-> r,
              commit_sha |-> c, at |-> 0, before |-> {}, result |-> << >> ] :
              r \in RepoIds, c \in WriterCommits }
          \cup
          { [ op |-> "invalidate_old_entries", pc |-> "idle", days |-> d,
              at |-> 0, before |-> {}, old_entries |-> {}, count |-> 0,
              deleted |-> {}, result |-> None ] : d \in InvalidateDays }

\* the entries find(repo_id ==, commit_sha ==).to_list() returns
CommitEntries(repo_id, commit_sha) ==
    { e \in cache : e.repo_id = repo_id /\ e.commit_sha = commit_sha }

\* get_all_for_commit(repo_id, commit_sha), called now or, when both runs
\* have stored their metrics, thirty days from now. The loop assigns
\* result[entry.file_path] for every entry that is not expired, in the order
\* of the list: of several entries of one file the last one stays.
GetAllForCommit ==
    /\ call.op = "get_all_for_commit" /\ call.pc = "idle"
    /\ \E at \in { now } \cup (IF WritersDone THEN { now + DEFAULT_TTL } ELSE {}) :
         LET kept == { e \in CommitEntries(call.repo_id, call.commit_sha) :
                         ~Expired(e, at) }
             files == { e.file_path : e \in kept }
         IN \E last \in [ files -> kept ] :
              /\ \A f \in files : last[f].file_path = f
              /\ call' = [ call EXCEPT
                             !.pc = "done", !.at = at, !.before = cache,
                             !.result = [ f \in files |-> EntryMetrics(last[f]) ] ]
              /\ now' = at
    /\ UNCHANGED << auditRuns, dimScans, cache, nextCacheId, faults, tr, ex,
                    cl, wr >>

\* mutant of OlderThan: an entry computed at the cutoff is old
OlderThanOrAt(entry, cutoff) == entry.computed_at <= cutoff

\* FileMetricCache.computed_at < cutoff
OlderThan(entry, cutoff) == entry.computed_at < cutoff

\* invalidate_old_entries(days) up to the return of its find: count is taken
InvalidateFind ==
    /\ call.op = "invalidate_old_entries" /\ call.pc = "idle"
    /\ LET cutoff == now - call.days * SecondsPerDay
           old_entries == { e \in cache : OlderThan(e, cutoff) }
       IN call' = [ call EXCEPT !.pc = "delete", !.at = now, !.before = cache,
                                !.old_entries = old_entries,
                                !.count = Cardinality(old_entries) ]
    /\ UNCHANGED << auditRuns, dimScans, cache, nextCacheId, now, faults, tr,
                    ex, cl, wr >>

\* one `await entry.delete()` of the loop
\* (call.deleted records the ids of the documents the deletes removed)
InvalidateDelete ==
    /\ call.op = "invalidate_old_entries" /\ call.pc = "delete"
    /\ \E entry \in call.old_entries :
         /\ cache' = { e \in cache : e.id # entry.id }
         /\ call' = [ call EXCEPT
                        !.old_entries = call.old_entries \ { entry },
                        !.deleted = IF \E e \in cache : e.id = entry.id
                                    THEN @ \cup { entry.id } ELSE @ ]
    /\ UNCHANGED << auditRuns, dimScans, nextCacheId, now, faults, tr, ex, cl, wr >>

\* return count
InvalidateReturn ==
    /\ call.op = "invalidate_old_entries" /\ call.pc = "delete"
    /\ call.old_entries = {}
    /\ call' = [ call EXCEPT !.pc = "done", !.result = call.count ]
    /\ UNCHANGED << auditRuns, dimScans, cache, nextCacheId, now, faults, tr,
                    ex, cl, wr >>

NextReaders ==
    \/ \E w \in Writers : WriterFind(w)
    \/ \E w \in Writers : WriterSave(w)
    \/ GetAllForCommit
    \/ InvalidateFind
    \/ InvalidateDelete
    \/ InvalidateReturn

SpecReaders == InitReaders /\ [][NextReaders]_vars

\* C24: get_all_for_commit(repo, commit) returns exactly the entries of that
\* repo and commit whose age does not exceed their ttl, which are the entries
\* get_metrics would return at that moment, returns nothing of another repo
\* or commit, and leaves the cache as it was.
C24_GetAllReturnsTheFreshEntries ==
    /\ [] ( ( call.op = "get_all_for_commit" /\ call.pc = "done" ) =>
              LET ofCommit == { e \in call.before :
                                  /\ e.repo_id = call.repo_id
                                  /\ e.commit_sha = call.commit_sha }
                  fresh == { e \in ofCommit : call.at - e.computed_at <= e.ttl }
              IN /\ DOMAIN call.result = { e.file_path : e \in fresh }
                 /\ \A e \in fresh : call.result[e.file_path] = EntryMetrics(e)
                 /\ \A f \in Files :
                      LET hits == { e \in ofCommit : e.file_path = f }
                      IN \A found \in (IF hits = {} THEN { NoEntry } ELSE hits) :
                           GetMetricsResult(found, call.at) =
                              IF f \in DOMAIN call.result THEN call.result[f]
                              ELSE Miss )
    /\ [][ ( call.op = "get_all_for_commit" /\ call.pc = "idle"
             /\ call'.pc = "done" ) => cache' = cache ]_vars

\* C25: invalidate_old_entries(days) removes exactly the entries, of every
\* repo and commit, that its query found with computed_at earlier than
\* now - days, removes or changes no other entry, and returns the number of
\* entries it removed.
C25_InvalidateRemovesExactlyTheOld ==
    /\ [] ( ( call.op = "invalidate_old_entries" /\ call.pc = "done" ) =>
              /\ call.deleted =
                    { e.id : e \in { b \in call.before :
                                       b.computed_at < call.at - call.days * 86400 } }
              /\ call.result = Cardinality(call.deleted)
              /\ \A e \in cache : e.id \in call.deleted => e \notin call.before )
    /\ [][ ( call.op = "invalidate_old_entries" /\ call' # call ) =>
              /\ cache' \subseteq cache
              /\ \A e \in cache :
                    e.computed_at >= call'.at - call.days * 86400 /\ e \in call'.before
                       => e \in cache' ]_vars

\* the call removed an expired entry and kept an entry computed at the cutoff
C25_Witness ==
    /\ call.op = "invalidate_old_entries" /\ call.pc = "done"
    /\ call.result >= 1
    /\ \E e \in cache : e \in call.before
                        /\ e.computed_at = call.at - call.days * 86400

\* C29: the cache never holds two entries of one (repo_id, commit_sha,
\* file_path), however the set_metrics calls of two audit runs of the same
\* repository and commit interleave.
C29_OneEntryPerKey ==
    \A e1 \in cache : \A e2 \in cache : KeyOf(e1) = KeyOf(e2) => e1 = e2

\* C26: get_changed_files never raises; it returns the empty set when the
\* diff process exits non-zero, times out or fails in any other way, and
\* when the process succeeds exactly the paths on the lines of its output
\* that are not blank.
C26_ChangedFilesNeverRaises ==
    ( call.op = "get_changed_files" /\ call.done ) =>
        /\ ~call.result.raised
        /\ ~Obtained(call.diff) => call.result.value = {}
        /\ Obtained(call.diff) => call.result.value = PathsOf(call.diff.stdout)

\* the diff timed out and the empty set was returned
C26_Witness ==
    /\ call.op = "get_changed_files" /\ call.done
    /\ call.diff.kind = "timeout"
    /\ call.result = [ raised |-> FALSE, value |-> {} ]

(***************************************************************************)
(* _compute_metrics: the walk, churn and test coverage                     *)
(***************************************************************************)
\* a code file of scan_dir outside the test directories: whether open/read
\* and the analysis succeed, and what the analysis finds
RepoFiles(path) ==
    { [ path |-> path, readable |-> r, loc |-> m.loc, complexity |-> m.complexity,
        indent_depth |-> m.indent_depth ] :
        r \in BOOLEAN, m \in { MetricsHot(path), MetricsClean(path) } }

\* the eligible files of the clone, in the order of os.walk
Repositories ==
    { << >> } \cup { << a >> : a \in RepoFiles("a.py") }
    \cup { << a, b >> : a \in RepoFiles("a.py"), b \in RepoFiles("b.py") }

NoAnalysis == [ none |-> TRUE ]

\* the body of the try of analyze_file
analyze_file_try(file) ==
    IF file.readable
    THEN [ raised |-> FALSE,
           value |-> [ complexity |-> file.complexity, loc |-> file.loc,
                       indent_depth |-> file.indent_depth, language |-> "python" ] ]
    ELSE [ raised |-> TRUE, value |-> NoAnalysis ]

\* mutant of AnalyzeExcept: analyze_file without its except clause
AnalyzeUncaught(tried) == tried

\* except Exception: logger.warning(...); return None
AnalyzeExcept(tried) ==
    IF tried.raised THEN [ raised |-> FALSE, value |-> NoAnalysis ] ELSE tried

\* MetricComputer.analyze_file(file_path, rel_path)
analyze_file(file) == AnalyzeExcept(analyze_file_try(file))

\* "Step 1": the loop over the files; metrics_dict[rel_path] = FileMetrics(...)
\* `if result`; an exception of analyze_file would leave the loop
RECURSIVE Walk(_, _)
Walk(metrics_dict, files) ==
    IF files = << >> THEN [ raised |-> FALSE, metrics_dict |-> metrics_dict ]
    ELSE LET result == analyze_file(Head(files))
         IN IF result.raised
            THEN [ raised |-> TRUE, metrics_dict |-> metrics_dict ]
            ELSE IF result.value = NoAnalysis THEN Walk(metrics_dict, Tail(files))
            ELSE Walk(Append(metrics_dict,
                             << Head(files).path,
                                FileMetrics(Head(files).path, result.value.loc,
                                            result.value.complexity,
                                            result.value.indent_depth, 0, FALSE,
                                            result.value.language) >>),
                      Tail(files))

\* what the request of one commit's details gives for one file: the commit
\* lists the file, does not list it, the status is not 200, the request or
\* the decoding of its body raises
DetailOutcomes == { "touched", "untouched", "status_500", "raises" }

\* the GitHub API as calculate_churn meets it: the list of commits (which
\* answers, answers with a status other than 200, or raises; "no_token" is
\* a run without repo_url or github_token), and per file the outcomes of
\* the requests of the commits
ChurnApis ==
    { [ list |-> l, detail |-> d ] :
        l \in { "no_token", "status_403", "raises" },
        d \in { [ f \in Files |-> << >> ] } }
    \cup { [ list |-> "ok", detail |-> d ] :
             d \in [ Files -> [ 1..MaxCommits -> DetailOutcomes ] ] }

\* count of one file: the commits whose details list it
RECURSIVE CountTouched(_)
CountTouched(detail) ==
    IF detail = << >> THEN 0
    ELSE (IF Head(detail) = "touched" THEN 1 ELSE 0) + CountTouched(Tail(detail))

Raises(detail) == \E i \in 1..Len(detail) : detail[i] = "raises"

\* `for file_path in files_to_check`: churn_map[file_path] = count after the
\* commits of the file; an exception leaves the loop and the try
RECURSIVE ChurnLoop(_, _, _)
ChurnLoop(churn_map, files_to_check, api) ==
    IF files_to_check = << >> THEN [ raised |-> FALSE, churn_map |-> churn_map ]
    ELSE LET file_path == Head(files_to_check)
         IN IF Raises(api.detail[file_path])
            THEN [ raised |-> TRUE, churn_map |-> churn_map ]
            ELSE ChurnLoop(churn_map @@ (file_path :> CountTouched(api.detail[file_path])),
                           Tail(files_to_check), api)

\* calculate_churn(repo_url, github_token, file_paths, days): the churn_map
\* it returns (its except clause logs and falls through to the return)
calculate_churn(file_paths, api) ==
    CASE api.list = "raises" -> << >>
      [] api.list = "status_403" -> << >>
      [] OTHER -> ChurnLoop(<< >>, file_paths, api).churn_map

\* "Update metrics with churn data"
WithChurn(metrics_dict, churn_map) ==
    [ i \in 1..Len(metrics_dict) |->
        IF metrics_dict[i][1] \in DOMAIN churn_map
        THEN << metrics_dict[i][1],
                [ metrics_dict[i][2] EXCEPT !.churn_90d = churn_map[metrics_dict[i][1]] ] >>
        ELSE metrics_dict[i] ]

\* detect_test_coverage: raises, or the files it finds a test for
Coverages ==
    { [ raised |-> TRUE, tested |-> {} ] }
    \cup { [ raised |-> FALSE, tested |-> t ] : t \in SUBSET { "a.py" } }

\* "Update metrics with test coverage"
WithCoverage(metrics_dict, coverage) ==
    IF coverage.raised THEN metrics_dict
    ELSE [ i \in 1..Len(metrics_dict) |->
             << metrics_dict[i][1],
                [ metrics_dict[i][2] EXCEPT
                    !.has_test = metrics_dict[i][1] \in coverage.tested ] >> ]

\* the rel_paths of a metrics_dict, in its order
PathsList(metrics_dict) == [ i \in 1..Len(metrics_dict) |-> metrics_dict[i][1] ]

\* _compute_metrics up to its return: whether an exception leaves it, the
\* metrics_dict, the churn_map, the keys of its set_metrics calls
compute_metrics(repository, api, coverage) ==
    LET walked == Walk(<< >>, repository)
        file_paths == PathsList(walked.metrics_dict)
        churn_map == IF api.list = "no_token" THEN << >>
                     ELSE calculate_churn(file_paths, api)
        metrics_dict == WithCoverage(WithChurn(walked.metrics_dict, churn_map),
                                     coverage)
    IN IF walked.raised
       THEN [ raised |-> TRUE, metrics_dict |-> << >>, churn_map |-> << >>,
              set_metrics |-> << >> ]
       ELSE [ raised |-> FALSE, metrics_dict |-> metrics_dict,
              churn_map |-> churn_map, set_metrics |-> PathsList(metrics_dict) ]

InitMetrics ==
    /\ InitIdle
    /\ call \in { [ op |-> "_compute_metrics", done |-> FALSE, repository |-> r,
                    api |-> a, coverage |-> c,
                    result |-> [ raised |-> FALSE, metrics_dict |-> << >>,
                                 churn_map |-> << >>, set_metrics |-> << >> ] ] :
                  r \in Repositories, a \in ChurnApis, c \in Coverages }

\* metric_cache = await self._compute_metrics(...), no set_metrics failing
ComputeMetricsCall ==
    /\ call.op = "_compute_metrics" /\ ~call.done
    /\ call' = [ call EXCEPT
                   !.done = TRUE,
                   !.result = compute_metrics(call.repository, call.api,
                                              call.coverage) ]
    /\ UNCHANGED << auditRuns, dimScans, cache, nextCacheId, now, faults, tr,
                    ex, cl, wr >>

NextMetrics == ComputeMetricsCall

SpecMetrics == InitMetrics /\ [][NextMetrics]_vars

\* the files of the call's repository
Walked == { call.repository[i] : i \in 1..Len(call.repository) }

\* the metrics the call returned for a path
MetricsOf(path) ==
    { call.result.metrics_dict[i][2] :
        i \in { j \in 1..Len(call.result.metrics_dict) :
                  call.result.metrics_dict[j][1] = path } }

C28_ChurnFailureIsPerFile ==
    ( call.op = "_compute_metrics" /\ call.done /\ call.api.list = "ok" ) =>
        /\ ~call.result.raised
        /\ \A file \in { f \in Walked : f.readable } :
              \A m \in MetricsOf(file.path) :
                 m.churn_90d = IF Raises(call.api.detail[file.path]) THEN 0
                               ELSE CountTouched(call.api.detail[file.path])

(***************************************************************************)
(* One request under the scheduling of the event loop                      *)
(***************************************************************************)
\* the steps of trigger_v3_audit after create_audit_run
TriggerSteps ==
    \/ TriggerMkdtemp
    \/ TriggerClone
    \/ TriggerExecute
    \/ TriggerReturn
    \/ TriggerCleanup

\* every awaited operation of the request completes or raises, and the
\* event loop resumes the coroutine that awaited it
SpecLive == Spec /\ WF_vars(TriggerSteps) /\ WF_vars(Execute)

\* the ids an AuditRun can have
RunIds == { 1, 2 }

\* C30: every AuditRun trigger_v3_audit created eventually has status
\* completed or failed, whatever happens after create_audit_run, and the
\* temporary directory of the request is eventually removed.
C30_EveryRunReachesATerminalStatus ==
    /\ \A id \in RunIds :
          ( id <= Len(auditRuns) ) ~>
             ( id <= Len(auditRuns)
               /\ auditRuns[id].status \in { "completed", "failed" } )
    /\ ( tr.scan_dir = "exists" ) ~> ( tr.scan_dir = "removed" )

====
